---------------------------- MODULE Spec2Model ----------------------------
(***************************************************************************)
(* Model of the AI-services module of AI-TASK-MANAGER                      *)
(* (src/scripts/modules/ai-services.js): the document-to-tasks pipeline    *)
(* callGemini -> handleRequest -> processClaudeResponse and the            *)
(* task-to-subtasks pipeline generateSubtasks -> parseSubtasksFromText.    *)
(*                                                                         *)
(* A response text is a sequence of tokens.  A token is one of the four    *)
(* delimiters "{" "}" "[" "]", a prose word "x", a number "0".."9", a      *)
(* quoted string such as "'1'", the literal "null", or an object key such  *)
(* as "id:".  Commas and white space carry no information and are left     *)
(* out.  JSON values are tagged records, so that values of different JS    *)
(* types can be stored and compared.                                       *)
(*                                                                         *)
(* The module also models the web server that serves and updates the tasks *)
(* file (src/scripts/server/express-server.js, ServerSpec), the web UI     *)
(* (src/assets/web-ui/js/app.js, UiSpec) and executeTaskMasterCommand of   *)
(* the MCP tools (src/mcp-server/src/tools/utils.js, ToolSpec).            *)
(***************************************************************************)
EXTENDS Integers, Sequences, FiniteSets, TLC

VARIABLES
    pc,          \* position of the invocation
    op,          \* the operation invoked: decompose, expand, research or
                 \* parse (processClaudeResponse called on its own)
    numTasks,    \* requested number of tasks / subtasks
    knowledge,   \* TRUE when the invocation carries a knowledge base
    frames,      \* retryCount of each pending callGemini, outermost first
    parseRetry,  \* retryCount of the current processClaudeResponse activation
    text,        \* response text being processed
    sent,        \* the value the provider serialised into text (ghost)
    log,         \* one entry per provider call: its outcome and its request
    waits,       \* the backoff waits started so far, in seconds
    result,      \* the value returned to the caller
    error,       \* the error thrown to the caller
    fallback,    \* TRUE once a fallback result has been synthesised
    startId,     \* nextSubtaskId of an expansion
    parentId,    \* id of the task being expanded
    useChinese,  \* CONFIG.useChinese
    perplexity,  \* the cached research client: 0 for null, else its instance
    created,     \* how many research clients have been constructed
    perplexityClient, \* the client this invocation obtained, 0 for none
    apiKey,      \* what the invocation read as PERPLEXITY_API_KEY
    researchLog, \* one entry per research call of the invocation
    timers,      \* animation intervals of the invocation that are active
    indicators,  \* loading indicators of the invocation that are active
    other,       \* the suspended invocation, when two are in flight: <<>> or
                 \* one record of its variables
    store,       \* the tasks file of the web server, as readJSON returns it
    queued,      \* requests received by the web server and not yet dispatched
    handling,     \* the handlers that have read the tasks file and not answered
    last,        \* the request answered last, its answer, the file before it
    served,      \* how many requests the web server has answered
    state,       \* the state object of the web UI
    fetches,     \* the fetchTasks calls of the web UI that await their response
    tasksList,   \* the tasks the web UI shows in its list (elements.tasksList)
    spawned,     \* the commands executeTaskMasterCommand has spawned
    returned     \* what executeTaskMasterCommand returned, or what it threw

vars == <<pc, op, numTasks, knowledge, frames, parseRetry, text, sent,
          log, waits, result, error, fallback, startId, parentId, useChinese,
          perplexity, created, perplexityClient, apiKey, researchLog,
          timers, indicators, other,
          store, queued, handling, last, served, state, fetches, tasksList,
          spawned, returned>>

\* the variables of the AI services
aiVars == <<pc, op, numTasks, knowledge, frames, parseRetry, text, sent,
            log, waits, result, error, fallback, startId, parentId, useChinese,
            perplexity, created, perplexityClient, apiKey, researchLog,
            timers, indicators, other>>

---------------------------------------------------------------------------
(* Bounds of the model *)

\* largest requested count of tasks or subtasks
MaxCount == 2
\* longest array of tasks or subtasks a response carries
MaxLen == 2
\* provider calls of one invocation; no further call is made after these
MaxCalls == 4

\* the web server answers at most MaxRequests requests, and at most
\* MaxInFlight are received and not answered at a time
MaxRequests == 2
MaxInFlight == 2

\* the web UI has at most MaxFetches fetchTasks calls awaiting a response
MaxFetches == 2

---------------------------------------------------------------------------
(* JSON values and JavaScript values *)

Num(n) == [t |-> "num", n |-> n]
Str(s) == [t |-> "str", s |-> s]
Null == [t |-> "null"]
Arr(a) == [t |-> "arr", a |-> a]
Obj(o) == [t |-> "obj", o |-> o]
Undefined == [t |-> "undef"]
NaN == [t |-> "nan"]

\* the empty object
NoFields == <<>>

\* obj.key of JavaScript; a missing property reads as undefined
HasField(v, k) == v.t = "obj" /\ k \in DOMAIN v.o
Get(v, k) == IF HasField(v, k) THEN v.o[k] ELSE Undefined

\* reading a property of null or undefined throws a TypeError
ReadThrows(v) == v.t \in {"null", "undef"}

\* writing a property of a primitive throws a TypeError in module (strict) code
WriteThrows(v) == v.t \notin {"obj", "arr"}

\* obj.key = val
Put(v, k, val) == Obj((k :> val) @@ v.o)

\* !v of JavaScript
Falsy(v) ==
    \/ v.t \in {"undef", "null", "nan"}
    \/ v.t = "num" /\ v.n = 0
    \/ v.t = "str" /\ v.s = ""

IsArray(v) == v.t = "arr"

---------------------------------------------------------------------------
(* Tokens *)

Digits == <<"0", "1", "2", "3", "4", "5", "6", "7", "8", "9">>
IsNumTok(tok) == \E i \in 1..Len(Digits) : Digits[i] = tok
NumVal(tok) == (CHOOSE i \in 1..Len(Digits) : Digits[i] = tok) - 1
NumTok(n) == Digits[n + 1]

\* the strings that occur in responses
StrContents == {"", "1", "2", "abc", "pending", "done", "zh", "A", "B", "C", "D"}
Quote(s) == "'" \o s \o "'"
IsStrTok(tok) == \E s \in StrContents : Quote(s) = tok
StrVal(tok) == CHOOSE s \in StrContents : Quote(s) = tok

\* the property names that occur in responses
Keys == {"tasks", "metadata", "totalTasks", "projectName", "sourceFile",
         "id", "dependencies", "status", "parentTaskId", "priority",
         "title", "titleTrans", "description", "descriptionTrans",
         "details", "detailsTrans", "testStrategy", "testStrategyTrans",
         "note", "generatedAt"}
KeyTok(k) == k \o ":"
IsKeyTok(tok) == \E k \in Keys : KeyTok(k) = tok
KeyVal(tok) == CHOOSE k \in Keys : KeyTok(k) = tok

---------------------------------------------------------------------------
(* String operations of JavaScript on token sequences (0-based) *)

\* text.indexOf(tok): the first position of tok, or -1
indexOf(s, tok) ==
    IF \E i \in 1..Len(s) : s[i] = tok
    THEN (CHOOSE i \in 1..Len(s) : s[i] = tok /\ \A j \in 1..(i-1) : s[j] # tok) - 1
    ELSE -1

\* text.lastIndexOf(tok): the last position of tok, or -1
lastIndexOf(s, tok) ==
    IF \E i \in 1..Len(s) : s[i] = tok
    THEN (CHOOSE i \in 1..Len(s) : s[i] = tok /\ \A j \in (i+1)..Len(s) : s[j] # tok) - 1
    ELSE -1

Clamp(i, n) == IF i < 0 THEN 0 ELSE IF i > n THEN n ELSE i

\* text.substring(a, b): both ends clamped to the text, swapped when a > b
substring(s, a, b) ==
    LET ca == Clamp(a, Len(s))
        cb == Clamp(b, Len(s))
        lo == IF ca <= cb THEN ca ELSE cb
        hi == IF ca <= cb THEN cb ELSE ca
    IN SubSeq(s, lo + 1, hi)

---------------------------------------------------------------------------
(* JSON.parse on token sequences: a recursive-descent parser *)

ParseFail == [ok |-> FALSE]
Parsed(v, next) == [ok |-> TRUE, v |-> v, next |-> next]

RECURSIVE ParseValue(_, _), ParseElems(_, _, _), ParseMembers(_, _, _)

\* the value that starts at position i (1-based) of s
ParseValue(s, i) ==
    IF i > Len(s) THEN ParseFail
    ELSE IF IsNumTok(s[i]) THEN Parsed(Num(NumVal(s[i])), i + 1)
    ELSE IF IsStrTok(s[i]) THEN Parsed(Str(StrVal(s[i])), i + 1)
    ELSE IF s[i] = "null" THEN Parsed(Null, i + 1)
    ELSE IF s[i] = "[" THEN ParseElems(s, i + 1, <<>>)
    ELSE IF s[i] = "{" THEN ParseMembers(s, i + 1, NoFields)
    ELSE ParseFail

\* the elements of an array up to its "]"
ParseElems(s, i, acc) ==
    IF i > Len(s) THEN ParseFail
    ELSE IF s[i] = "]" THEN Parsed(Arr(acc), i + 1)
    ELSE LET r == ParseValue(s, i)
         IN IF r.ok THEN ParseElems(s, r.next, Append(acc, r.v)) ELSE ParseFail

\* the members of an object up to its "}"; a repeated key keeps the last value
ParseMembers(s, i, acc) ==
    IF i > Len(s) THEN ParseFail
    ELSE IF s[i] = "}" THEN Parsed(Obj(acc), i + 1)
    ELSE IF IsKeyTok(s[i])
         THEN LET r == ParseValue(s, i + 1)
              IN IF r.ok
                 THEN ParseMembers(s, r.next, (KeyVal(s[i]) :> r.v) @@ acc)
                 ELSE ParseFail
         ELSE ParseFail

\* JSON.parse(s): the whole of s must be one value, else a SyntaxError
JSONparse(s) ==
    LET r == ParseValue(s, 1)
    IN IF r.ok /\ r.next = Len(s) + 1 THEN [ok |-> TRUE, v |-> r.v] ELSE ParseFail

---------------------------------------------------------------------------
(* What the model writes: JSON text of a value, as the prompts ask for it *)

\* the order in which a reply lists the properties of an object
KeyOrder == <<"tasks", "metadata", "projectName", "totalTasks", "sourceFile",
              "generatedAt", "note", "id", "title", "titleTrans",
              "description", "descriptionTrans", "status", "dependencies",
              "priority", "parentTaskId", "details", "detailsTrans",
              "testStrategy", "testStrategyTrans">>

RECURSIVE Stringify(_), StringifyElems(_, _), StringifyMembers(_, _)

\* the JSON text of value v
Stringify(v) ==
    IF v.t = "num" THEN <<NumTok(v.n)>>
    ELSE IF v.t = "str" THEN <<Quote(v.s)>>
    ELSE IF v.t = "arr" THEN <<"[">> \o StringifyElems(v.a, 1) \o <<"]">>
    ELSE IF v.t = "obj" THEN <<"{">> \o StringifyMembers(v.o, 1) \o <<"}">>
    ELSE <<"null">>

StringifyElems(a, i) ==
    IF i > Len(a) THEN <<>> ELSE Stringify(a[i]) \o StringifyElems(a, i + 1)

StringifyMembers(o, i) ==
    IF i > Len(KeyOrder) THEN <<>>
    ELSE IF KeyOrder[i] \in DOMAIN o
         THEN <<KeyTok(KeyOrder[i])>> \o Stringify(o[KeyOrder[i]])
                  \o StringifyMembers(o, i + 1)
         ELSE StringifyMembers(o, i + 1)

\* an array of numbers
NumArr(ns) == Arr([i \in 1..Len(ns) |-> Num(ns[i])])

\* A reply of the model: the value it meant and the text it wrote
Reply(v, txt) == [v |-> v, txt |-> txt]

\* The ways a reply carries its JSON: bare, prose around it, prose that
\* itself holds braces before it or brackets after it, and cut off before
\* its last token
Wrap(body) ==
    { body,
      <<"x">> \o body \o <<"x">>,
      <<"x", "{", "x", "}">> \o body,
      body \o <<"[", "x", "]">>,
      SubSeq(body, 1, Len(body) - 1) }

\* Replies that hold no JSON value of any use, for the delimiters open and
\* close that the extraction looks for
GarbageReplies(open, close) ==
    { Reply(Undefined, txt) : txt \in
        { <<>>, <<"x">>, <<open, "x">>, <<"x", close>>, <<close, open>>,
          <<close, "null", open>>, <<close, "1", open>>, <<open, "x", close>> } }

---------------------------------------------------------------------------
(* Replies to a decomposition request *)

\* a task as the model writes it
TaskObj(id, deps) == Obj(("id" :> Num(id)) @@ ("dependencies" :> NumArr(deps)))

\* The task lists of n tasks the model may write: a well-formed chain,
\* one id repeated, a forward reference in every task, a self reference
TaskLists(n) ==
    { Arr([i \in 1..n |-> TaskObj(i, IF i > 1 THEN <<i - 1>> ELSE <<>>)]),
      Arr([i \in 1..n |-> TaskObj(1, <<>>)]),
      Arr([i \in 1..n |-> TaskObj(i, <<i + 1>>)]),
      Arr([i \in 1..n |-> TaskObj(i, <<i>>)]) }

\* the metadata blocks the model may write, none (undefined) among them
MetadataBlocks ==
    {Undefined, Null} \cup { Obj("totalTasks" :> Num(k)) : k \in 1..MaxCount }

Batch(tasks, metadata) ==
    IF metadata = Undefined THEN Obj("tasks" :> tasks)
    ELSE Obj(("tasks" :> tasks) @@ ("metadata" :> metadata))

\* a well-formed chain of n tasks
Chain(n) == Arr([i \in 1..n |-> TaskObj(i, IF i > 1 THEN <<i - 1>> ELSE <<>>)])

\* The batches of the expected shape: every task list without metadata, and
\* the chains with every metadata block
WellShapedBatches ==
    { Batch(tl, Undefined) : tl \in UNION { TaskLists(n) : n \in 0..MaxLen } }
      \cup { Batch(Chain(n), md) : n \in 0..MaxLen, md \in MetadataBlocks }

\* objects that are no batch: no tasks, or tasks that is no array
MisshapenBatches ==
    { Obj(NoFields), Obj("metadata" :> Obj("totalTasks" :> Num(1))),
      Obj("tasks" :> Null), Obj("tasks" :> Num(1)), Obj("tasks" :> Str("abc")),
      Obj("tasks" :> Obj(NoFields)) }

\* a task list whose elements are no objects
OddBatches == { Obj("tasks" :> Arr(<<Num(1), Null>>)) }

\* the batches that are also sent wrapped in prose or cut off
WrappedBatches ==
    { Batch(Chain(MaxLen), Undefined),
      Batch(Chain(1), Obj("totalTasks" :> Num(MaxCount))) }

\* every reply the provider may give to a decomposition request
BatchReplies ==
    { Reply(v, Stringify(v)) :
        v \in WellShapedBatches \cup MisshapenBatches \cup OddBatches }
      \cup UNION { { Reply(v, txt) : txt \in Wrap(Stringify(v)) } : v \in WrappedBatches }
      \cup GarbageReplies("{", "}")

---------------------------------------------------------------------------
(* Provider errors and their messages.  A message is a sequence of          *)
(* fragments; wrapping a message puts a prefix fragment before it.          *)

QuotaMessage == "Gemini quota has been exhausted. Please check your API quota and try again later."
PermissionMessage == "Permission denied accessing Gemini API. Please check your API key and permissions."
FormatMessage == "There was an issue with the request format. If this persists, please report it as a bug."
TimeoutMessage == "The request to Gemini timed out. Please try again."
NetworkMessage == "There was a network error connecting to Gemini. Please check your internet connection and try again."
ApiErrorPrefix == "Gemini API error: "
CommunicationPrefix == "Error communicating with Gemini: "

\* messages the provider's errors carry
RawMessages == {"Request timeout", "Network unreachable", "network timeout", "Internal error"}

\* the fragments whose lower-cased text contains 'timeout', resp. 'network'
TimeoutFragments == {"Request timeout", "network timeout"}
NetworkFragments == {"Network unreachable", "network timeout", NetworkMessage}

\* error.message?.toLowerCase().includes(word)
includes(message, word) ==
    \E i \in 1..Len(message) :
        message[i] \in (IF word = "timeout" THEN TimeoutFragments ELSE NetworkFragments)

\* an error object: details.code ("none" when it has no details) and message
Err(code, message) == [code |-> code, message |-> message]

\* new Error(message)
NewError(message) == Err("none", message)

\* the errors generateContent may throw
ProviderErrors ==
    { Err("none", <<m>>) : m \in RawMessages }
      \cup { Err(c, <<m>>) : c \in {"PERMISSION_DENIED", "UNAVAILABLE"},
                             m \in {"Network unreachable", "Internal error"} }
      \cup { Err(c, <<"Internal error">>) : c \in {"RESOURCE_EXHAUSTED", "INVALID_ARGUMENT"} }

\* handleGeminiError(error): the user-friendly message
handleGeminiError(e) ==
    IF e.code # "none"
    THEN CASE e.code = "RESOURCE_EXHAUSTED" -> <<QuotaMessage>>
           [] e.code = "PERMISSION_DENIED" -> <<PermissionMessage>>
           [] e.code = "INVALID_ARGUMENT" -> <<FormatMessage>>
           [] OTHER -> <<ApiErrorPrefix>> \o e.message
    ELSE IF includes(e.message, "timeout") THEN <<TimeoutMessage>>
    ELSE IF includes(e.message, "network") THEN <<NetworkMessage>>
    ELSE <<CommunicationPrefix>> \o e.message

\* The classification of a provider error that handleGeminiError's branches make
Classify(e) ==
    IF e.code # "none"
    THEN CASE e.code = "RESOURCE_EXHAUSTED" -> "quotaExhausted"
           [] e.code = "PERMISSION_DENIED" -> "permissionDenied"
           [] e.code = "INVALID_ARGUMENT" -> "malformedRequest"
           [] OTHER -> "unknown"
    ELSE IF includes(e.message, "timeout") THEN "timeout"
    ELSE IF includes(e.message, "network") THEN "network"
    ELSE "unknown"

\* callGemini retries at most this many times
MaxRetries == 2

\* IsRetryable without its test for network errors
IsRetryableNoNetwork(e) ==
    \/ e.code = "RESOURCE_EXHAUSTED"
    \/ includes(e.message, "timeout")

\* the errors callGemini retries
IsRetryable(e) ==
    \/ e.code = "RESOURCE_EXHAUSTED"
    \/ includes(e.message, "timeout")
    \/ includes(e.message, "network")

\* WaitTime that does not grow with the retry count
WaitTimeConstant(rc) == 5 + 0 * rc

\* the wait before retry retryCount + 1, in seconds: 5, then 10
WaitTime(rc) == (rc + 1) * 5

\* handleRequest's catch: the error it throws for error e of the provider
handleRequestCatch(e) == NewError(handleGeminiError(e))

\* callGeminiCatch that retries whatever the error is
callGeminiCatchAnyError(e, rc) ==
    IF rc < MaxRetries
    THEN [kind |-> "retry", wait |-> WaitTime(rc), retryCount |-> rc + 1]
    ELSE [kind |-> "throw", error |-> NewError(handleGeminiError(e))]

\* callGeminiCatch that allows one retry more
callGeminiCatchRetriesThrice(e, rc) ==
    IF rc < MaxRetries + 1 /\ IsRetryable(e)
    THEN [kind |-> "retry", wait |-> WaitTime(rc), retryCount |-> rc + 1]
    ELSE [kind |-> "throw", error |-> NewError(handleGeminiError(e))]

\* callGemini's catch at retry count rc: retry after a wait, or throw
callGeminiCatch(e, rc) ==
    IF rc < MaxRetries /\ IsRetryable(e)
    THEN [kind |-> "retry", wait |-> WaitTime(rc), retryCount |-> rc + 1]
    ELSE [kind |-> "throw", error |-> NewError(handleGeminiError(e))]

\* An error e thrown into the pending callGemini activations fs: the
\* innermost catches it first; an activation that does not retry throws its
\* own error to the one that awaits it.  The result says which activation
\* retries (the activations awaiting it stay), or what the caller receives.
RECURSIVE Unwind(_, _)
Unwind(e, fs) ==
    IF fs = <<>> THEN [kind |-> "throw", error |-> e]
    ELSE LET f == fs[Len(fs)]
             c == callGeminiCatch(e, f.retryCount)
             below == SubSeq(fs, 1, Len(fs) - 1)
         IN IF c.kind = "retry"
            THEN [kind |-> "retry", wait |-> c.wait,
                  frames |-> Append(below, [f EXCEPT !.retryCount = c.retryCount])]
            ELSE Unwind(c.error, below)

---------------------------------------------------------------------------
(* processClaudeResponse *)

\* the path of the source document
prdPath == "doc"

\* processClaudeResponse gives up re-parsing at this retry count
MaxParseRetries == 2

\* what a try block ends with: a value, or the kind of error thrown
Value(v) == [ok |-> TRUE, v |-> v]
Throw(kind) == [ok |-> FALSE, err |-> kind]

\* DefaultMetadata that counts no task
DefaultMetadataCountsNothing(tasks) ==
    Obj(("projectName" :> Str("PRD Implementation"))
        @@ ("totalTasks" :> Num(0))
        @@ ("sourceFile" :> Str(prdPath))
        @@ ("generatedAt" :> Str("today")))

\* the metadata added to a reply that has none
DefaultMetadata(tasks) ==
    Obj(("projectName" :> Str("PRD Implementation"))
        @@ ("totalTasks" :> Num(Len(tasks.a)))
        @@ ("sourceFile" :> Str(prdPath))
        @@ ("generatedAt" :> Str("today")))

\* ParseBatch that rejects a tasks array whose length is not n
ParseBatchChecksCount(textContent, n) ==
    LET jsonStart == indexOf(textContent, "{")
        jsonEnd == lastIndexOf(textContent, "}")
        jsonContent == substring(textContent, jsonStart, jsonEnd + 1)
        parsed == JSONparse(jsonContent)
        tasks == Get(parsed.v, "tasks")
    IN IF jsonStart = -1 \/ jsonEnd = -1 THEN Throw("extraction")
       ELSE IF ~parsed.ok THEN Throw("syntax")
       ELSE IF ReadThrows(parsed.v) THEN Throw("type")
       ELSE IF Falsy(tasks) \/ ~IsArray(tasks) THEN Throw("validation")
       ELSE IF Len(tasks.a) # n THEN Throw("validation")
       ELSE IF Falsy(Get(parsed.v, "metadata"))
            THEN Value(Put(parsed.v, "metadata", DefaultMetadata(tasks)))
            ELSE Value(parsed.v)

\* The try block of processClaudeResponse: slice from the first "{" to the
\* last "}", parse, check the tasks array, add metadata when missing
ParseBatch(textContent, n) ==
    LET jsonStart == indexOf(textContent, "{")
        jsonEnd == lastIndexOf(textContent, "}")
        jsonContent == substring(textContent, jsonStart, jsonEnd + 1)
        parsed == JSONparse(jsonContent)
        tasks == Get(parsed.v, "tasks")
    IN IF jsonStart = -1 \/ jsonEnd = -1 THEN Throw("extraction")
       ELSE IF ~parsed.ok THEN Throw("syntax")
       ELSE IF ReadThrows(parsed.v) THEN Throw("type")
       ELSE IF Falsy(tasks) \/ ~IsArray(tasks) THEN Throw("validation")
       ELSE IF Falsy(Get(parsed.v, "metadata"))
            THEN Value(Put(parsed.v, "metadata", DefaultMetadata(tasks)))
            ELSE Value(parsed.v)

\* FallbackTask without the dependency on the task before
FallbackTaskNoDependencies(i, chinese) ==
    Obj(("id" :> Num(i))
        @@ ("title" :> Str("Task"))
        @@ ("description" :> Str("Task generated as fallback due to parsing error."))
        @@ ("status" :> Str("pending"))
        @@ ("dependencies" :> NumArr(<<>>))
        @@ ("priority" :> Str("medium"))
        @@ ("details" :> Str("Please fill in the implementation details for this task."))
        @@ ("testStrategy" :> Str("Manual verification.")))

\* task i of the fallback batch
FallbackTask(i, chinese) ==
    LET task == ("id" :> Num(i))
                @@ ("title" :> Str("Task"))
                @@ ("description" :> Str("Task generated as fallback due to parsing error."))
                @@ ("status" :> Str("pending"))
                @@ ("dependencies" :> (IF i > 1 THEN NumArr(<<i - 1>>) ELSE NumArr(<<>>)))
                @@ ("priority" :> Str("medium"))
                @@ ("details" :> Str("Please fill in the implementation details for this task."))
                @@ ("testStrategy" :> Str("Manual verification."))
        trans == ("titleTrans" :> Str("zh"))
                 @@ ("descriptionTrans" :> Str("zh"))
                 @@ ("detailsTrans" :> Str("zh"))
                 @@ ("testStrategyTrans" :> Str(""))
    IN Obj(IF chinese THEN trans @@ task ELSE task)

\* the fallback batch of n tasks
FallbackResponse(n, chinese) ==
    Obj(("tasks" :> Arr([i \in 1..n |-> FallbackTask(i, chinese)]))
        @@ ("metadata" :>
              Obj(("projectName" :> Str("PRD Implementation"))
                  @@ ("totalTasks" :> Num(n))
                  @@ ("sourceFile" :> Str(prdPath))
                  @@ ("generatedAt" :> Str("today"))
                  @@ ("note" :> Str("Generated as fallback due to parsing error.")))))

\* One activation of processClaudeResponse at retry count rc: it returns the
\* parsed batch, parses the same text again at rc + 1, calls callGemini
\* again at rc + 1 (without knowledge base), or returns the fallback batch
processClaudeResponse(textContent, n, rc, chinese) ==
    LET r == ParseBatch(textContent, n)
    IN IF r.ok THEN [kind |-> "return", v |-> r.v, fallback |-> FALSE]
       ELSE IF rc < MaxParseRetries
            THEN IF rc = 1
                 THEN [kind |-> "callGemini", retryCount |-> rc + 1, err |-> r.err]
                 ELSE [kind |-> "reparse", retryCount |-> rc + 1, err |-> r.err]
            ELSE [kind |-> "return", v |-> FallbackResponse(n, chinese),
                  fallback |-> TRUE]

---------------------------------------------------------------------------
(* parseSubtasksFromText *)

\* parseInt(s, 10) of the strings that occur in responses
parseInt(str) ==
    IF str = "1" THEN Num(1) ELSE IF str = "2" THEN Num(2) ELSE NaN

\* CoerceDependency that leaves strings as they are
CoerceDependencyKeepsStrings(dep) == dep

\* one dependency entry: a string is converted to a number
CoerceDependency(dep) == IF dep.t = "str" THEN parseInt(dep.s) ELSE dep

\* RepairTrans that repairs nothing
RepairTransLeavesAbsent(subtask, field, trans) == subtask

\* if the primary field is set and its translation is not, the translation
\* becomes the empty string
RepairTrans(subtask, field, trans) ==
    IF ~Falsy(Get(subtask, field)) /\ Falsy(Get(subtask, trans))
    THEN Put(subtask, trans, Str(""))
    ELSE subtask

\* NormalizeSubtask that assigns an id only where the reply has none
NormalizeSubtaskKeepsId(subtask, index, start, parent, chinese) ==
    LET s1 == IF Get(subtask, "id") = Undefined
              THEN Put(subtask, "id", Num(start + index))
              ELSE subtask
        deps == Get(s1, "dependencies")
        s2 == IF ~Falsy(deps) /\ IsArray(deps)
              THEN Put(s1, "dependencies",
                       Arr([j \in 1..Len(deps.a) |-> CoerceDependency(deps.a[j])]))
              ELSE Put(s1, "dependencies", Arr(<<>>))
        s3 == Put(s2, "status", Str("pending"))
    IN Put(s3, "parentTaskId", Num(parent))

\* NormalizeSubtask that moves a numeric id of the reply up by start - 1
\* instead of counting from start
NormalizeSubtaskShiftsId(subtask, index, start, parent, chinese) ==
    LET id == Get(subtask, "id")
        s1 == IF id.t = "num" THEN Put(subtask, "id", Num(id.n + start - 1))
              ELSE Put(subtask, "id", Num(start + index))
        deps == Get(s1, "dependencies")
        s2 == IF ~Falsy(deps) /\ IsArray(deps)
              THEN Put(s1, "dependencies",
                       Arr([j \in 1..Len(deps.a) |-> CoerceDependency(deps.a[j])]))
              ELSE Put(s1, "dependencies", Arr(<<>>))
        s3 == Put(s2, "status", Str("pending"))
    IN Put(s3, "parentTaskId", Num(parent))

\* NormalizeSubtask that sets status and parentTaskId only where the reply
\* has none
NormalizeSubtaskKeepsStatus(subtask, index, start, parent, chinese) ==
    LET s1 == Put(subtask, "id", Num(start + index))
        deps == Get(s1, "dependencies")
        s2 == IF ~Falsy(deps) /\ IsArray(deps)
              THEN Put(s1, "dependencies",
                       Arr([j \in 1..Len(deps.a) |-> CoerceDependency(deps.a[j])]))
              ELSE Put(s1, "dependencies", Arr(<<>>))
        s3 == IF HasField(s2, "status") THEN s2 ELSE Put(s2, "status", Str("pending"))
    IN IF HasField(s3, "parentTaskId") THEN s3 ELSE Put(s3, "parentTaskId", Num(parent))

\* the body of the map callback, for an element that is an object
NormalizeSubtask(subtask, index, start, parent, chinese) ==
    LET s1 == IF Get(subtask, "id") # Num(start + index)
              THEN Put(subtask, "id", Num(start + index))
              ELSE subtask
        deps == Get(s1, "dependencies")
        s2 == IF ~Falsy(deps) /\ IsArray(deps)
              THEN Put(s1, "dependencies",
                       Arr([j \in 1..Len(deps.a) |-> CoerceDependency(deps.a[j])]))
              ELSE Put(s1, "dependencies", Arr(<<>>))
        s3 == Put(s2, "status", Str("pending"))
        s4 == Put(s3, "parentTaskId", Num(parent))
        s5 == RepairTrans(s4, "title", "titleTrans")
        s6 == RepairTrans(s5, "description", "descriptionTrans")
        s7 == RepairTrans(s6, "details", "detailsTrans")
        s8 == RepairTrans(s7, "testStrategy", "testStrategyTrans")
    IN IF chinese THEN s8 ELSE s4

\* The map callback throws a TypeError on an element that is no object:
\* reading null.id, or writing the id of a number or string
NormalizeThrows(subtask) == ReadThrows(subtask) \/ WriteThrows(subtask)

\* The try block of parseSubtasksFromText: slice from the first "[" to the
\* last "]", parse, check that it is an array, normalise every element
ParseSubtasks(txt, start, expectedCount, parent, chinese) ==
    LET jsonStartIndex == indexOf(txt, "[")
        jsonEndIndex == lastIndexOf(txt, "]")
        jsonText == substring(txt, jsonStartIndex, jsonEndIndex + 1)
        parsed == JSONparse(jsonText)
    IN IF jsonStartIndex = -1 \/ jsonEndIndex = -1 \/ jsonEndIndex < jsonStartIndex
       THEN Throw("extraction")
       ELSE IF ~parsed.ok THEN Throw("syntax")
       ELSE IF ~IsArray(parsed.v) THEN Throw("validation")
       ELSE IF \E i \in 1..Len(parsed.v.a) : NormalizeThrows(parsed.v.a[i])
            THEN Throw("type")
            ELSE Value(Arr([i \in 1..Len(parsed.v.a) |->
                     NormalizeSubtask(parsed.v.a[i], i - 1, start, parent, chinese)]))

\* fallback subtask i (counted from 0)
FallbackSubtask(i, start, parent, chinese) ==
    LET subtask == ("id" :> Num(start + i))
                   @@ ("title" :> Str("Subtask"))
                   @@ ("description" :> Str("Auto-generated fallback subtask"))
                   @@ ("dependencies" :> Arr(<<>>))
                   @@ ("details" :> Str("This is a fallback subtask created because parsing failed. Please update with real details."))
                   @@ ("status" :> Str("pending"))
                   @@ ("parentTaskId" :> Num(parent))
        trans == ("titleTrans" :> Str("zh"))
                 @@ ("descriptionTrans" :> Str("zh"))
                 @@ ("detailsTrans" :> Str("zh"))
                 @@ ("testStrategyTrans" :> Str(""))
    IN Obj(IF chinese THEN trans @@ subtask ELSE subtask)

\* FallbackSubtasks whose ids count from 1 instead of from start
FallbackSubtasksFromOne(start, expectedCount, parent, chinese) ==
    Arr([i \in 1..expectedCount |-> FallbackSubtask(i - 1, 1, parent, chinese)])

\* the fallback list of expectedCount subtasks
FallbackSubtasks(start, expectedCount, parent, chinese) ==
    Arr([i \in 1..expectedCount |-> FallbackSubtask(i - 1, start, parent, chinese)])

\* parseSubtasksFromText whose catch covers only what the try block throws
\* itself, not the TypeError of the map callback
parseSubtasksFromTextLetsTypeErrorOut(txt, start, expectedCount, parent, chinese) ==
    LET r == ParseSubtasks(txt, start, expectedCount, parent, chinese)
    IN IF r.ok THEN [kind |-> "return", v |-> r.v, fallback |-> FALSE]
       ELSE IF r.err = "type" THEN [kind |-> "throw", err |-> r.err]
       ELSE [kind |-> "return",
             v |-> FallbackSubtasks(start, expectedCount, parent, chinese),
             fallback |-> TRUE]

\* parseSubtasksFromText without its catch: what the try block throws
\* reaches the caller
parseSubtasksFromTextRethrows(txt, start, expectedCount, parent, chinese) ==
    LET r == ParseSubtasks(txt, start, expectedCount, parent, chinese)
    IN IF r.ok THEN [kind |-> "return", v |-> r.v, fallback |-> FALSE]
       ELSE [kind |-> "throw", err |-> r.err]

\* parseSubtasksFromText: the normalised subtasks, or the fallback list when
\* anything in the try block throws
parseSubtasksFromText(txt, start, expectedCount, parent, chinese) ==
    LET r == ParseSubtasks(txt, start, expectedCount, parent, chinese)
    IN IF r.ok THEN [kind |-> "return", v |-> r.v, fallback |-> FALSE]
       ELSE [kind |-> "return",
             v |-> FallbackSubtasks(start, expectedCount, parent, chinese),
             fallback |-> TRUE]

---------------------------------------------------------------------------
(* Replies to an expansion request *)

\* the texts that tell the subtasks of a reply apart
Letters == <<"A", "B", "C", "D">>

\* subtask i as the model writes it, with the properties extra
SubtaskObj(i, extra) == Obj(extra @@ ("description" :> Str(Letters[i])))

\* a list of n subtasks whose properties, besides description, are f[i]
SubtaskList(n, f) == Arr([i \in 1..n |-> SubtaskObj(i, f[i])])

\* The property sets a reply may give its subtask i (of n): ids that count
\* from 1, are missing, repeat, descend or are strings; dependencies that
\* are missing, no array, numbers, strings, null or forward references;
\* translations present, empty or missing; a status and parent of its own
SubtaskVariants(n) ==
    { [i \in 1..n |-> ("id" :> Num(i)) @@ ("dependencies" :> NumArr(IF i > 1 THEN <<i - 1>> ELSE <<>>))],
      [i \in 1..n |-> NoFields],
      [i \in 1..n |-> ("id" :> Num(1))],
      [i \in 1..n |-> ("id" :> Num(n + 1 - i))],
      [i \in 1..n |-> ("id" :> Str("1"))],
      [i \in 1..n |-> ("id" :> Num(i)) @@ ("dependencies" :> Null)],
      [i \in 1..n |-> ("id" :> Num(i)) @@ ("dependencies" :> Str("1"))],
      [i \in 1..n |-> ("id" :> Num(i)) @@ ("dependencies" :> Arr(<<Str("1"), Num(2)>>))],
      [i \in 1..n |-> ("id" :> Num(i)) @@ ("dependencies" :> Arr(<<Str("abc")>>))],
      [i \in 1..n |-> ("id" :> Num(i)) @@ ("dependencies" :> Arr(<<Null>>))],
      [i \in 1..n |-> ("id" :> Num(i)) @@ ("dependencies" :> NumArr(<<i>>))],
      [i \in 1..n |-> ("id" :> Num(i)) @@ ("title" :> Str("A")) @@ ("titleTrans" :> Str("zh"))
                      @@ ("details" :> Str("B")) @@ ("testStrategy" :> Str(""))],
      [i \in 1..n |-> ("id" :> Num(i)) @@ ("title" :> Str("A")) @@ ("titleTrans" :> Str(""))],
      [i \in 1..n |-> ("id" :> Num(i)) @@ ("status" :> Str("done")) @@ ("parentTaskId" :> Num(9))] }

\* the lists of subtask objects
SubtaskLists ==
    UNION { { SubtaskList(n, f) : f \in SubtaskVariants(n) } : n \in 0..MaxLen }

\* arrays whose elements are not all objects
OddLists == { Arr(<<Num(1), Num(2)>>), Arr(<<Null>>), Arr(<<Str("abc")>>),
              Arr(<<SubtaskObj(1, NoFields), Null>>) }

\* the lists that are also sent wrapped in prose or cut off
WrappedLists ==
    { SubtaskList(MaxLen, [i \in 1..MaxLen |-> ("id" :> Num(i))]),
      SubtaskList(1, [i \in 1..1 |-> NoFields]) }

\* every reply the provider may give to an expansion request
SubtaskReplies ==
    { Reply(v, Stringify(v)) : v \in SubtaskLists \cup OddLists }
      \cup UNION { { Reply(v, txt) : txt \in Wrap(Stringify(v)) } : v \in WrappedLists }
      \cup GarbageReplies("[", "]")

---------------------------------------------------------------------------
(* The research client and the research call *)

MissingKeyMessage == "PERPLEXITY_API_KEY environment variable is missing. Set it to use research-backed features."

\* getPerplexityClient that constructs a client without looking at the key
getPerplexityClientIgnoresKey(cache, key, count) ==
    IF cache # 0
    THEN [kind |-> "return", client |-> cache, perplexity |-> cache, created |-> count]
    ELSE [kind |-> "return", client |-> count + 1, perplexity |-> count + 1,
          created |-> count + 1]

\* getPerplexityClient() with the module variable perplexity = cache, the
\* environment variable set (key) or not, and count clients constructed so
\* far: the client it returns and the new cache, or the error it throws
getPerplexityClient(cache, key, count) ==
    IF cache # 0
    THEN [kind |-> "return", client |-> cache, perplexity |-> cache, created |-> count]
    ELSE IF ~key
    THEN [kind |-> "throw", error |-> NewError(<<MissingKeyMessage>>),
          perplexity |-> cache, created |-> count]
    ELSE [kind |-> "return", client |-> count + 1, perplexity |-> count + 1,
          created |-> count + 1]

\* the errors chat.completions.create may throw
ResearchErrors ==
    { Err("none", <<m>>) : m \in {"Request timeout", "Network unreachable", "Internal error"} }
      \cup { Err("RESOURCE_EXHAUSTED", <<"Internal error">>) }

\* reading choices[0].message of a response without choices
TypeErrorMessage == "Cannot read properties of undefined (reading 'message')"

\* the outer catch of generateSubtasksWithPerplexity that throws a new
\* error with a user message in place of the one it caught
generateSubtasksWithPerplexityCatchWraps(e) == NewError(handleGeminiError(e))

\* the outer catch of generateSubtasksWithPerplexity: logs and rethrows
generateSubtasksWithPerplexityCatch(e) == e

\* the two loading indicators
loadingIndicator == "loadingIndicator"
researchLoadingIndicator == "researchLoadingIndicator"

---------------------------------------------------------------------------
(* The prompts sent to the primary provider, as sequences of blocks *)

\* what a prompt has when the condition holds
When(cond, block) == IF cond THEN <<block>> ELSE <<>>

\* fullPrompt of handleRequest
handleRequestPrompt(kb) ==
    <<"systemPrompt">> \o When(kb, "knowledgeBase") \o <<"prdContent">>

\* fullPrompt of generateSubtasks
generateSubtasksPrompt(kb, chinese) ==
    <<"systemPrompt">> \o When(kb, "knowledgeBase")
      \o <<"task.description", "contextPrompt">>
      \o When(chinese, "translationInstruction")
      \o <<"jsonStructureExample">>

\* the prompt of the second stage with the knowledge base put where
\* generateSubtasks puts it
generateSubtasksWithPerplexityPromptKnowledgeFirst(kb, chinese) ==
    <<"systemPrompt">> \o When(kb, "knowledgeBase")
      \o <<"task.description", "researchResult", "additionalContext">>
      \o When(chinese, "translationInstruction")
      \o <<"jsonStructureExample">>

\* fullPrompt of the second stage of generateSubtasksWithPerplexity:
\* combinedContext follows the task and ends with the knowledge base
generateSubtasksWithPerplexityPrompt(kb, chinese) ==
    <<"systemPrompt", "task.description", "researchResult", "additionalContext">>
      \o When(kb, "knowledgeBase")
      \o When(chinese, "translationInstruction")
      \o <<"jsonStructureExample">>

---------------------------------------------------------------------------
(* The web server (src/scripts/server/express-server.js): the tasks file,  *)
(* the localisation of what is read and the routing of what is written     *)

\* the fields that have a translated twin, and the twin of a field
PrimaryFields == {"title", "description", "details", "testStrategy"}
Trans(f) == f \o "Trans"

\* An item as the client is to see it: every primary field that has a
\* truthy translation shows the translation
Localize(item) ==
    LET shown == { f \in PrimaryFields : ~Falsy(Get(item, Trans(f))) }
    IN Obj([k \in DOMAIN item.o \cup shown |->
              IF k \in shown THEN item.o[Trans(k)] ELSE item.o[k]])

\* a task localised, its subtasks included
LocalizeTask(task) ==
    LET t == Localize(task)
        subtasks == Get(t, "subtasks")
    IN IF IsArray(subtasks) /\ Len(subtasks.a) > 0
       THEN Put(t, "subtasks",
                Arr([i \in 1..Len(subtasks.a) |-> Localize(subtasks.a[i])]))
       ELSE t

\* The four blocks on the request body of a PUT: a truthy primary field of
\* the body whose translation is truthy in the stored item goes to the
\* translation, and the body gets the stored primary value in its place
Reroute(original, updates) ==
    LET moved == { f \in PrimaryFields :
                     ~Falsy(Get(updates, f)) /\ ~Falsy(Get(original, Trans(f))) }
        to == { Trans(f) : f \in moved }
    IN Obj([k \in DOMAIN updates.o \cup to |->
              IF k \in moved THEN Get(original, k)
              ELSE IF k \in to
                   THEN updates.o[CHOOSE f \in moved : Trans(f) = k]
                   ELSE updates.o[k]])

\* Merge without the four blocks: the body is spread over the stored item
MergeSpreadsBody(original, updates) ==
    LET spread == updates.o @@ original.o
    IN Obj([k \in { j \in DOMAIN spread : spread[j] # Undefined } |-> spread[k]])

\* { ...original, ...updates } as JSON.stringify writes it: the fields of
\* the body win, a field that is undefined is left out
Merge(original, updates) ==
    LET spread == Reroute(original, updates).o @@ original.o
    IN Obj([k \in { j \in DOMAIN spread : spread[j] # Undefined } |-> spread[k]])

\* items.findIndex(t => t.id === id), counted from 1, 0 for none
findIndex(items, id) ==
    LET found == { i \in 1..Len(items) : Get(items[i], "id") = Num(id) }
    IN IF found = {} THEN 0
       ELSE CHOOSE i \in found : \A j \in found : i <= j

\* what a handler answers and what it leaves in the tasks file
Answer(status, body, file) == [status |-> status, body |-> body, file |-> file]

\* PUT /api/tasks/:taskId on the file content data
putTask(data, taskId, updates) ==
    IF Falsy(data) \/ Falsy(Get(data, "tasks"))
    THEN Answer(404, Obj("error" :> Str("Tasks file not found")), data)
    ELSE LET tasks == Get(data, "tasks").a
             taskIndex == findIndex(tasks, taskId)
         IN IF taskIndex = 0 THEN Answer(404, Obj("error" :> Str("Task not found")), data)
            ELSE LET updated == Merge(tasks[taskIndex], updates)
                 IN Answer(200, Localize(updated),
                           Put(data, "tasks",
                               Arr([tasks EXCEPT ![taskIndex] = updated])))

\* putSubtask that adds the subtask when the parent has none of that id
putSubtaskAddsMissing(data, taskId, subtaskId, updates) ==
    IF Falsy(data) \/ Falsy(Get(data, "tasks"))
    THEN Answer(404, Obj("error" :> Str("Tasks file not found")), data)
    ELSE LET tasks == Get(data, "tasks").a
             taskIndex == findIndex(tasks, taskId)
         IN IF taskIndex = 0 THEN Answer(404, Obj("error" :> Str("Parent task not found")), data)
            ELSE LET task == tasks[taskIndex]
                     subtasks == Get(task, "subtasks")
                 IN IF Falsy(subtasks) \/ ~IsArray(subtasks)
                    THEN Answer(404, Obj("error" :> Str("Task has no subtasks")), data)
                    ELSE LET subtaskIndex == findIndex(subtasks.a, subtaskId)
                             updated ==
                               IF subtaskIndex = 0 THEN updates
                               ELSE Merge(subtasks.a[subtaskIndex], updates)
                             list ==
                               IF subtaskIndex = 0 THEN Append(subtasks.a, updated)
                               ELSE [subtasks.a EXCEPT ![subtaskIndex] = updated]
                         IN Answer(200, Localize(updated),
                               Put(data, "tasks",
                                   Arr([tasks EXCEPT ![taskIndex] =
                                          Put(task, "subtasks", Arr(list))])))

\* PUT /api/tasks/:taskId/subtasks/:subtaskId on the file content data
putSubtask(data, taskId, subtaskId, updates) ==
    IF Falsy(data) \/ Falsy(Get(data, "tasks"))
    THEN Answer(404, Obj("error" :> Str("Tasks file not found")), data)
    ELSE LET tasks == Get(data, "tasks").a
             taskIndex == findIndex(tasks, taskId)
         IN IF taskIndex = 0 THEN Answer(404, Obj("error" :> Str("Parent task not found")), data)
            ELSE LET task == tasks[taskIndex]
                     subtasks == Get(task, "subtasks")
                 IN IF Falsy(subtasks) \/ ~IsArray(subtasks)
                    THEN Answer(404, Obj("error" :> Str("Task has no subtasks")), data)
                    ELSE LET subtaskIndex == findIndex(subtasks.a, subtaskId)
                         IN IF subtaskIndex = 0
                            THEN Answer(404, Obj("error" :> Str("Subtask not found")), data)
                            ELSE LET updated ==
                                       Merge(subtasks.a[subtaskIndex], updates)
                                 IN Answer(200, Localize(updated),
                                      Put(data, "tasks",
                                        Arr([tasks EXCEPT ![taskIndex] =
                                          Put(task, "subtasks",
                                            Arr([subtasks.a EXCEPT
                                                   ![subtaskIndex] = updated]))])))

\* GET /api/tasks on the file content data
getTasks(data) ==
    IF Falsy(data) THEN Answer(404, Obj("error" :> Str("Tasks file not found")), data)
    ELSE IF ~IsArray(Get(data, "tasks"))
         THEN Answer(500, Obj("error" :> Str("Failed to read tasks data")), data)
         ELSE LET tasks == Get(data, "tasks").a
              IN Answer(200,
                        Put(data, "tasks",
                            Arr([i \in 1..Len(tasks) |-> LocalizeTask(tasks[i])])),
                        data)

\* getTask that localises whatever the locale
getTaskIgnoresLocale(data, taskId, locale) ==
    IF Falsy(data) \/ Falsy(Get(data, "tasks"))
    THEN Answer(404, Obj("error" :> Str("Tasks file not found")), data)
    ELSE LET tasks == Get(data, "tasks").a
             taskIndex == findIndex(tasks, taskId)
         IN IF taskIndex = 0 THEN Answer(404, Obj("error" :> Str("Task not found")), data)
            ELSE Answer(200, LocalizeTask(tasks[taskIndex]), data)

\* GET /api/tasks/:taskId?locale= on the file content data
getTask(data, taskId, locale) ==
    IF Falsy(data) \/ Falsy(Get(data, "tasks"))
    THEN Answer(404, Obj("error" :> Str("Tasks file not found")), data)
    ELSE LET tasks == Get(data, "tasks").a
             taskIndex == findIndex(tasks, taskId)
         IN IF taskIndex = 0 THEN Answer(404, Obj("error" :> Str("Task not found")), data)
            ELSE IF locale = "en" THEN Answer(200, tasks[taskIndex], data)
                 ELSE Answer(200, LocalizeTask(tasks[taskIndex]), data)

\* readJSON(tasksPath): the content of the tasks file, parsed anew at every
\* call, null when there is no file
readJSON(file) == file

\* A tasks file: task 1 has every translation and two subtasks, the first
\* with a translated description and no description, the second with an
\* empty translation of its title; task 2 has neither
InitialStore ==
    Obj("tasks" :> Arr(<<
        Obj(("id" :> Num(1)) @@ ("status" :> Str("pending"))
            @@ ("title" :> Str("T")) @@ ("titleTrans" :> Str("Tzh"))
            @@ ("description" :> Str("D")) @@ ("descriptionTrans" :> Str("Dzh"))
            @@ ("details" :> Str("E")) @@ ("detailsTrans" :> Str("Ezh"))
            @@ ("testStrategy" :> Str("S")) @@ ("testStrategyTrans" :> Str("Szh"))
            @@ ("subtasks" :> Arr(<<
                  Obj(("id" :> Num(1)) @@ ("title" :> Str("T"))
                      @@ ("descriptionTrans" :> Str("Dzh"))),
                  Obj(("id" :> Num(2)) @@ ("title" :> Str("T"))
                      @@ ("titleTrans" :> Str(""))) >>))),
        Obj(("id" :> Num(2)) @@ ("status" :> Str("done"))
            @@ ("title" :> Str("T"))) >>))

\* The request bodies: a title, an empty title, a title with a translation
\* of its own, the three other primary fields, an id, and nothing
Bodies ==
    { Obj("title" :> Str("X")),
      Obj("title" :> Str("")),
      Obj(("title" :> Str("X")) @@ ("titleTrans" :> Str("Y"))),
      Obj(("description" :> Str("X")) @@ ("details" :> Str("X"))
          @@ ("testStrategy" :> Str("X"))),
      Obj("id" :> Num(2)),
      Obj(NoFields) }

Request(route, taskId, subtaskId, locale, body) ==
    [route |-> route, taskId |-> taskId, subtaskId |-> subtaskId,
     locale |-> locale, body |-> body]

\* The requests the clients send.  Task 3 is no task; subtask 3 of task 1
\* is no subtask, task 2 has no subtasks
Requests ==
    { Request("putTask", t, 0, "", b) : t \in {1, 2, 3}, b \in Bodies }
      \cup { Request("putSubtask", sp[1], sp[2], "", b) :
               sp \in {<<1, 1>>, <<1, 2>>, <<1, 3>>, <<2, 1>>, <<3, 1>>},
               b \in Bodies }
      \cup { Request("getTasks", 0, 0, "", Undefined) }
      \cup { Request("getTask", t, 0, l, Undefined) :
               t \in {1, 2, 3}, l \in {"zh", "en"} }

---------------------------------------------------------------------------
(* The state machine *)

NoError == Err("none", <<>>)

\* an activation of callGemini
Frame(rc, kb) == [retryCount |-> rc, knowledgeBase |-> kb]

\* the log with one more provider call
Logged(entry) == Append(log, entry)

\* the values of nextSubtaskId and of the parent task's id that are tried
StartIds == {1, 3}
ParentIds == {1, 2}

\* The inputs the actions draw from.  With a single invocation in flight
\* they are the full sets; with two in flight each invocation draws from a
\* few representatives: a reply that parses and one that does not, an
\* error that is retried and one that is not.
Inputs ==
    IF other = <<>>
    THEN [counts |-> 1..MaxCount, knowledge |-> BOOLEAN,
          startIds |-> StartIds, parentIds |-> ParentIds,
          retryCounts |-> 0..MaxParseRetries, calls |-> MaxCalls,
          batchReplies |-> BatchReplies, subtaskReplies |-> SubtaskReplies,
          providerErrors |-> ProviderErrors, researchErrors |-> ResearchErrors]
    ELSE [counts |-> {1}, knowledge |-> {FALSE},
          startIds |-> {1}, parentIds |-> {1},
          retryCounts |-> {MaxParseRetries}, calls |-> MaxCalls - 1,
          batchReplies |-> { Reply(Batch(Chain(1), Undefined),
                                   Stringify(Batch(Chain(1), Undefined))),
                             Reply(Undefined, <<"x">>) },
          subtaskReplies |-> { Reply(SubtaskList(1, <<NoFields>>),
                                     Stringify(SubtaskList(1, <<NoFields>>))),
                               Reply(Undefined, <<"x">>) },
          providerErrors |-> { Err("none", <<"Network unreachable">>),
                               Err("PERMISSION_DENIED", <<"Internal error">>) },
          researchErrors |-> { Err("none", <<"Internal error">>) }]

\* the module is loaded and nothing has been invoked
Loaded ==
    /\ pc = "idle"
    /\ op = "none"
    /\ numTasks = 0
    /\ knowledge = FALSE
    /\ frames = <<>>
    /\ parseRetry = 0
    /\ text = <<>>
    /\ sent = Undefined
    /\ log = <<>>
    /\ waits = <<>>
    /\ result = Undefined
    /\ error = NoError
    /\ fallback = FALSE
    /\ startId = 0
    /\ parentId = 0
    /\ useChinese \in BOOLEAN
    /\ perplexity = 0
    /\ created = 0
    /\ perplexityClient = 0
    /\ apiKey = "unread"
    /\ researchLog = <<>>
    /\ timers = 0
    /\ indicators = {}
    \* the web server listens and has received nothing
    /\ queued = 0
    /\ handling = <<>>
    /\ last = <<>>
    /\ served = 0
    \* the state object of the web UI as the script creates it
    /\ state = [tasks |-> <<>>, selectedTask |-> Null, selectedTaskId |-> Null,
                selectedSubtaskId |-> Null, statusFilter |-> "all"]
    /\ fetches = 0
    /\ tasksList = <<>>
    \* no command has been executed
    /\ spawned = <<>>
    /\ returned = <<>>

Init ==
    /\ Loaded
    /\ other = <<>>
    /\ store = InitialStore

(* The decomposition pipeline *)

\* callGemini(prdContent, prdPath, numTasks, 0, knowledgeBase) is invoked and
\* reaches the provider call of handleRequest, which has started its
\* loading indicator and its animation interval
CallGemini ==
    /\ UNCHANGED <<other, store, queued, handling, last, served, state, fetches, tasksList,
                   spawned, returned>>
    /\ pc = "idle"
    /\ \E n \in Inputs.counts, kb \in Inputs.knowledge :
        /\ numTasks' = n
        /\ knowledge' = kb
        /\ frames' = <<Frame(0, kb)>>
    /\ op' = "decompose"
    /\ pc' = "request"
    /\ timers' = timers + 1
    /\ indicators' = indicators \cup {loadingIndicator}
    /\ UNCHANGED <<parseRetry, text, sent, log, waits, result, error, fallback,
                   startId, parentId, useChinese,
                   perplexity, created, perplexityClient, apiKey, researchLog>>

\* geminiModel.generateContent returns a text: handleRequest clears the
\* interval, stops the indicator and hands the text to
\* processClaudeResponse at retry count 0
GenerateContentReturns ==
    /\ UNCHANGED <<other, store, queued, handling, last, served, state, fetches, tasksList,
                   spawned, returned>>
    /\ pc = "request"
    /\ Len(log) < Inputs.calls
    /\ \E reply \in Inputs.batchReplies :
        /\ text' = reply.txt
        /\ sent' = reply.v
        /\ log' = Logged([out |-> "text",
                          parses |-> ParseBatch(reply.txt, numTasks).ok,
                          knowledgeBase |-> frames[Len(frames)].knowledgeBase,
                          prompt |-> handleRequestPrompt(
                                         frames[Len(frames)].knowledgeBase)])
    /\ parseRetry' = 0
    /\ pc' = "process"
    /\ timers' = timers - 1
    /\ indicators' = indicators \ {loadingIndicator}
    /\ UNCHANGED <<op, numTasks, knowledge, frames, waits, result, error, fallback,
                   startId, parentId, useChinese,
                   perplexity, created, perplexityClient, apiKey, researchLog>>

\* Error e is thrown inside handleRequest's try block: handleRequest wraps
\* it, the pending callGemini activations catch it, and one of them starts
\* its wait before a retry or the caller receives the error
HandleRequestThrows(e) ==
    LET u == Unwind(handleRequestCatch(e), frames)
    IN IF u.kind = "retry"
       THEN /\ pc' = "wait"
            /\ waits' = Append(waits, u.wait)
            /\ frames' = u.frames
            /\ error' = error
       ELSE /\ pc' = "thrown"
            /\ waits' = waits
            /\ frames' = <<>>
            /\ error' = u.error

\* geminiModel.generateContent throws: handleRequest's catch stops the
\* indicator; the interval is out of its reach
GenerateContentThrows ==
    /\ UNCHANGED <<other, store, queued, handling, last, served, state, fetches, tasksList,
                   spawned, returned>>
    /\ pc = "request"
    /\ Len(log) < Inputs.calls
    /\ \E e \in Inputs.providerErrors :
        /\ log' = Logged([out |-> "error", err |-> e,
                          knowledgeBase |-> frames[Len(frames)].knowledgeBase,
                          prompt |-> handleRequestPrompt(
                                         frames[Len(frames)].knowledgeBase)])
        /\ HandleRequestThrows(e)
    /\ indicators' = indicators \ {loadingIndicator}
    /\ UNCHANGED <<op, numTasks, knowledge, parseRetry, text, sent, result, fallback,
                   startId, parentId, useChinese, timers,
                   perplexity, created, perplexityClient, apiKey, researchLog>>

\* the wait is over: callGemini is called again and reaches the provider call
RetryAfterWait ==
    /\ UNCHANGED <<other, store, queued, handling, last, served, state, fetches, tasksList,
                   spawned, returned>>
    /\ pc = "wait"
    /\ pc' = "request"
    /\ timers' = timers + 1
    /\ indicators' = indicators \cup {loadingIndicator}
    /\ UNCHANGED <<op, numTasks, knowledge, frames, parseRetry, text, sent, log, waits,
                   result, error, fallback, startId, parentId, useChinese,
                   perplexity, created, perplexityClient, apiKey, researchLog>>

\* One activation of processClaudeResponse on the current text.  Whatever
\* it returns passes through every pending activation to the caller; an
\* error it threw would be caught by handleRequest.
ProcessClaudeResponse ==
    /\ UNCHANGED <<other, store, queued, handling, last, served, state, fetches, tasksList,
                   spawned, returned>>
    /\ pc = "process"
    /\ LET r == processClaudeResponse(text, numTasks, parseRetry, useChinese)
       IN IF r.kind = "return"
          THEN /\ pc' = "returned"
               /\ result' = r.v
               /\ fallback' = r.fallback
               /\ frames' = <<>>
               /\ UNCHANGED <<parseRetry, text, sent, waits, error, timers, indicators>>
          ELSE IF r.kind = "reparse"
          THEN /\ pc' = "process"
               /\ parseRetry' = r.retryCount
               /\ UNCHANGED <<result, fallback, frames, text, sent, waits, error,
                              timers, indicators>>
          ELSE IF r.kind = "callGemini"
          THEN /\ pc' = "request"
               /\ frames' = Append(frames, Frame(r.retryCount, FALSE))
               /\ parseRetry' = 0
               /\ text' = <<>>
               /\ sent' = Undefined
               /\ timers' = timers + 1
               /\ indicators' = indicators \cup {loadingIndicator}
               /\ UNCHANGED <<result, fallback, waits, error>>
          ELSE /\ HandleRequestThrows(NewError(<<r.err>>))
               /\ UNCHANGED <<result, fallback, parseRetry, text, sent,
                              timers, indicators>>
    /\ UNCHANGED <<op, numTasks, knowledge, log, startId, parentId, useChinese,
                   perplexity, created, perplexityClient, apiKey, researchLog>>

\* processClaudeResponse(textContent, numTasks, retryCount, ...), an export
\* of the module, is called on a text at any retry count
ProcessClaudeResponseCalled ==
    /\ UNCHANGED <<other, store, queued, handling, last, served, state, fetches, tasksList,
                   spawned, returned>>
    /\ pc = "idle"
    /\ \E reply \in Inputs.batchReplies, n \in Inputs.counts,
          rc \in Inputs.retryCounts :
        /\ text' = reply.txt
        /\ sent' = reply.v
        /\ numTasks' = n
        /\ parseRetry' = rc
    /\ op' = "parse"
    /\ pc' = "process"
    /\ UNCHANGED <<knowledge, frames, log, waits, result, error, fallback,
                   startId, parentId, useChinese, timers, indicators,
                   perplexity, created, perplexityClient, apiKey, researchLog>>

(* The expansion pipeline *)

\* generateSubtasks(task, numSubtasks, nextSubtaskId, ...) is invoked and
\* reaches its provider call, its loading indicator and its animation
\* interval started
GenerateSubtasks ==
    /\ UNCHANGED <<other, store, queued, handling, last, served, state, fetches, tasksList,
                   spawned, returned>>
    /\ pc = "idle"
    /\ \E n \in Inputs.counts, sid \in Inputs.startIds, par \in Inputs.parentIds,
          kb \in Inputs.knowledge :
        /\ numTasks' = n
        /\ startId' = sid
        /\ parentId' = par
        /\ knowledge' = kb
    /\ op' = "expand"
    /\ pc' = "expanding"
    /\ timers' = timers + 1
    /\ indicators' = indicators \cup {loadingIndicator}
    /\ UNCHANGED <<frames, parseRetry, text, sent, log, waits, result, error,
                   fallback, useChinese,
                   perplexity, created, perplexityClient, apiKey, researchLog>>

\* the prompt of the expansion under way
SubtasksPrompt ==
    IF op = "research" THEN generateSubtasksWithPerplexityPrompt(knowledge, useChinese)
    ELSE generateSubtasksPrompt(knowledge, useChinese)

\* geminiModel.generateContent returns a text, in generateSubtasks or in
\* the second stage of generateSubtasksWithPerplexity: the interval is
\* cleared, the indicator stopped, and what parseSubtasksFromText makes of
\* the text is returned
SubtasksContentReturns ==
    /\ UNCHANGED <<other, store, queued, handling, last, served, state, fetches, tasksList,
                   spawned, returned>>
    /\ pc = "expanding"
    /\ \E reply \in Inputs.subtaskReplies :
        LET r == parseSubtasksFromText(reply.txt, startId, numTasks, parentId, useChinese)
        IN /\ text' = reply.txt
           /\ sent' = reply.v
           /\ log' = Logged([out |-> "text",
                             parses |-> ParseSubtasks(reply.txt, startId, numTasks,
                                                      parentId, useChinese).ok,
                             knowledgeBase |-> knowledge,
                             prompt |-> SubtasksPrompt])
           /\ IF r.kind = "return"
              THEN /\ pc' = "returned"
                   /\ result' = r.v
                   /\ fallback' = r.fallback
                   /\ error' = error
              ELSE /\ pc' = "thrown"
                   /\ error' = NewError(<<r.err>>)
                   /\ UNCHANGED <<result, fallback>>
    /\ timers' = timers - 1
    /\ indicators' = indicators \ {loadingIndicator}
    /\ UNCHANGED <<op, numTasks, knowledge, frames, parseRetry, waits,
                   startId, parentId, useChinese,
                   perplexity, created, perplexityClient, apiKey, researchLog>>

\* geminiModel.generateContent throws, in generateSubtasks or in the second
\* stage of generateSubtasksWithPerplexity: the inner catch stops the
\* indicator and both catches rethrow the error
SubtasksContentThrows ==
    /\ UNCHANGED <<other, store, queued, handling, last, served, state, fetches, tasksList,
                   spawned, returned>>
    /\ pc = "expanding"
    /\ \E e \in Inputs.providerErrors :
        /\ log' = Logged([out |-> "error", err |-> e, knowledgeBase |-> knowledge,
                          prompt |-> SubtasksPrompt])
        /\ error' = e
    /\ pc' = "thrown"
    /\ indicators' = indicators \ {loadingIndicator}
    /\ UNCHANGED <<op, numTasks, knowledge, frames, parseRetry, text, sent, waits,
                   result, fallback, startId, parentId, useChinese, timers,
                   perplexity, created, perplexityClient, apiKey, researchLog>>

(* The research-backed expansion pipeline *)

\* generateSubtasksWithPerplexity(task, numSubtasks, nextSubtaskId, ...) is
\* invoked: it asks getPerplexityClient for the client and, having got it,
\* starts the research indicator and reaches the research call
GenerateSubtasksWithPerplexity ==
    /\ UNCHANGED <<other, store, queued, handling, last, served, state, fetches, tasksList,
                   spawned, returned>>
    /\ pc = "idle"
    /\ \E n \in Inputs.counts, sid \in Inputs.startIds, par \in Inputs.parentIds,
          kb \in Inputs.knowledge :
        /\ numTasks' = n
        /\ startId' = sid
        /\ parentId' = par
        /\ knowledge' = kb
    /\ op' = "research"
    /\ \E key \in BOOLEAN :
        LET g == getPerplexityClient(perplexity, key, created)
        IN /\ apiKey' = IF perplexity # 0 THEN "unread"
                         ELSE IF key THEN "present" ELSE "absent"
           /\ perplexity' = g.perplexity
           /\ created' = g.created
           /\ IF g.kind = "return"
              THEN /\ perplexityClient' = g.client
                   /\ indicators' = indicators \cup {researchLoadingIndicator}
                   /\ pc' = "researching"
                   /\ error' = error
              ELSE /\ perplexityClient' = perplexityClient
                   /\ indicators' = indicators
                   /\ pc' = "thrown"
                   /\ error' = generateSubtasksWithPerplexityCatch(g.error)
    /\ UNCHANGED <<frames, parseRetry, text, sent, log, waits, result, fallback,
                   useChinese, researchLog, timers>>

\* chat.completions.create returns.  With a message in the response the
\* research indicator is stopped and the second stage reaches its provider
\* call, its indicator and interval started; reading the message of a
\* response without choices throws a TypeError to the outer catch.
ResearchReturns ==
    /\ UNCHANGED <<other, store, queued, handling, last, served, state, fetches, tasksList,
                   spawned, returned>>
    /\ pc = "researching"
    /\ \E out \in {"content", "empty"} :
        /\ researchLog' = Append(researchLog, [out |-> out])
        /\ IF out = "content"
           THEN /\ indicators' = (indicators \ {researchLoadingIndicator})
                                     \cup {loadingIndicator}
                /\ timers' = timers + 1
                /\ pc' = "expanding"
                /\ error' = error
           ELSE /\ pc' = "thrown"
                /\ error' = generateSubtasksWithPerplexityCatch(
                                 NewError(<<TypeErrorMessage>>))
                /\ UNCHANGED <<indicators, timers>>
    /\ UNCHANGED <<op, numTasks, knowledge, frames, parseRetry, text, sent, log, waits,
                   result, fallback, startId, parentId, useChinese,
                   perplexity, created, perplexityClient, apiKey>>

\* chat.completions.create throws: the outer catch rethrows the error
ResearchThrows ==
    /\ UNCHANGED <<other, store, queued, handling, last, served, state, fetches, tasksList,
                   spawned, returned>>
    /\ pc = "researching"
    /\ \E e \in Inputs.researchErrors :
        /\ researchLog' = Append(researchLog, [out |-> "error", err |-> e])
        /\ error' = generateSubtasksWithPerplexityCatch(e)
    /\ pc' = "thrown"
    /\ UNCHANGED <<op, numTasks, knowledge, frames, parseRetry, text, sent, log, waits,
                   result, fallback, startId, parentId, useChinese,
                   perplexity, created, perplexityClient, apiKey, timers, indicators>>

(* Between invocations *)

\* The invocation is over and the caller is about to invoke the module
\* again: what belongs to the invocation is forgotten, the cached research
\* client and the configuration stay
CallAgain ==
    /\ UNCHANGED <<other, store, queued, handling, last, served, state, fetches, tasksList,
                   spawned, returned>>
    /\ pc \in {"returned", "thrown"}
    /\ pc' = "idle"
    /\ op' = "none"
    /\ numTasks' = 0
    /\ knowledge' = FALSE
    /\ frames' = <<>>
    /\ parseRetry' = 0
    /\ text' = <<>>
    /\ sent' = Undefined
    /\ log' = <<>>
    /\ waits' = <<>>
    /\ result' = Undefined
    /\ error' = NoError
    /\ fallback' = FALSE
    /\ startId' = 0
    /\ parentId' = 0
    /\ perplexityClient' = 0
    /\ apiKey' = "unread"
    /\ researchLog' = <<>>
    /\ timers' = 0
    /\ indicators' = {}
    /\ UNCHANGED <<useChinese, perplexity, created>>

Next ==
    \/ CallGemini
    \/ GenerateContentReturns
    \/ GenerateContentThrows
    \/ RetryAfterWait
    \/ ProcessClaudeResponse
    \/ ProcessClaudeResponseCalled
    \/ GenerateSubtasks
    \/ SubtasksContentReturns
    \/ SubtasksContentThrows
    \/ GenerateSubtasksWithPerplexity
    \/ ResearchReturns
    \/ ResearchThrows
    \/ CallAgain

Spec == Init /\ [][Next]_vars

---------------------------------------------------------------------------
(* The web server.  A request is received, the router dispatches it to its *)
(* handler, the handler reads the tasks file and answers, having written   *)
(* the file when it is a PUT that found its item.                          *)

\* where a handler that has read the file can be left for another request
\* to be dispatched: with await in its body
InterruptibleAfterRead == {"read"}

\* where a handler can be left for another request to be dispatched: the
\* handlers are synchronous functions, nowhere
Interruptible == {}

\* a request arrives at the socket
Arrive ==
    /\ served + queued + Len(handling) < MaxRequests
    /\ queued + Len(handling) < MaxInFlight
    /\ queued' = queued + 1
    /\ UNCHANGED <<store, handling, last, served, aiVars, state, fetches, tasksList, spawned, returned>>

\* the event loop takes a request and its handler runs up to readJSON
Dispatch ==
    /\ queued > 0
    /\ \A i \in 1..Len(handling) : handling[i].at \in Interruptible
    /\ queued' = queued - 1
    /\ \E req \in Requests :
         handling' = Append(handling,
                           [req |-> req, data |-> readJSON(store), at |-> "read"])
    /\ UNCHANGED <<store, last, served, aiVars, state, fetches, tasksList, spawned, returned>>

\* handler i answers: the file is what the handler leaves of what it read
Respond(i, answer) ==
    /\ store' = IF answer.file = handling[i].data THEN store ELSE answer.file
    /\ last' = <<[req |-> handling[i].req, status |-> answer.status,
                  body |-> answer.body, before |-> store]>>
    /\ handling' = [j \in 1..(Len(handling) - 1) |->
                     IF j < i THEN handling[j] ELSE handling[j + 1]]
    /\ served' = served + 1
    /\ UNCHANGED <<queued, aiVars, state, fetches, tasksList, spawned, returned>>

PutTaskAnswers ==
    \E i \in 1..Len(handling) :
        /\ handling[i].req.route = "putTask"
        /\ Respond(i, putTask(handling[i].data, handling[i].req.taskId,
                              handling[i].req.body))

PutSubtaskAnswers ==
    \E i \in 1..Len(handling) :
        /\ handling[i].req.route = "putSubtask"
        /\ Respond(i, putSubtask(handling[i].data, handling[i].req.taskId,
                                 handling[i].req.subtaskId, handling[i].req.body))

GetTasksAnswers ==
    \E i \in 1..Len(handling) :
        /\ handling[i].req.route = "getTasks"
        /\ Respond(i, getTasks(handling[i].data))

GetTaskAnswers ==
    \E i \in 1..Len(handling) :
        /\ handling[i].req.route = "getTask"
        /\ Respond(i, getTask(handling[i].data, handling[i].req.taskId,
                              handling[i].req.locale))

ServerInit ==
    /\ Loaded
    /\ other = <<>>
    /\ store \in {InitialStore, Null}

ServerNext ==
    \/ Arrive
    \/ Dispatch
    \/ PutTaskAnswers
    \/ PutSubtaskAnswers
    \/ GetTasksAnswers
    \/ GetTaskAnswers

ServerSpec == ServerInit /\ [][ServerNext]_vars

---------------------------------------------------------------------------
(* The web UI (src/assets/web-ui/js/app.js): the task list, the status     *)
(* filter and the selection                                                *)

\* getFilteredTasks(): the tasks of s whose status, in lower case, is the
\* status filter, every task when the filter is 'all'
getFilteredTasks(s) ==
    LET toLowerCase(str) == IF str = "Done" THEN "done" ELSE str
    IN IF s.statusFilter = "all" THEN s.tasks
       ELSE SelectSeq(s.tasks,
                      LAMBDA task : toLowerCase(Get(task, "status").s) = s.statusFilter)

\* [...tasks].sort by id, as numbers
SortById(tasks) ==
    LET n == Len(tasks)
        order == CHOOSE p \in [1..n -> 1..n] :
                   /\ \A i, j \in 1..n : i # j => p[i] # p[j]
                   /\ \A i, j \in 1..n :
                        i < j => \/ Get(tasks[p[i]], "id").n < Get(tasks[p[j]], "id").n
                                 \/ /\ Get(tasks[p[i]], "id").n = Get(tasks[p[j]], "id").n
                                    /\ p[i] < p[j]
    IN [i \in 1..n |-> tasks[order[i]]]

\* selectTask(task, subtaskId) on the state s
selectTask(s, task, subtaskId) ==
    [s EXCEPT !.selectedTask = task, !.selectedTaskId = Get(task, "id"),
              !.selectedSubtaskId = subtaskId]

\* clearTaskDetails() on the state s
clearTaskDetails(s) ==
    [s EXCEPT !.selectedTask = Null, !.selectedTaskId = Null,
              !.selectedSubtaskId = Null]

\* renderTasks() on the state s: nothing more when no task passes the
\* filter; else the selected task is selected again when it is in the
\* filtered list and the selection is cleared when it is not
renderTasks(s) ==
    LET filteredTasks == getFilteredTasks(s)
        found == { i \in 1..Len(filteredTasks) :
                     Get(filteredTasks[i], "id") = s.selectedTaskId }
    IN IF Len(filteredTasks) = 0 THEN s
       ELSE IF Falsy(s.selectedTaskId) THEN s
       ELSE IF found # {}
            THEN selectTask(s, filteredTasks[CHOOSE i \in found :
                                               \A j \in found : i <= j], Null)
            ELSE clearTaskDetails(s)

\* The task lists GET /api/tasks answers: none, one task pending or done,
\* two tasks out of order, the first of which has a subtask
TaskListsOfUi ==
    LET task(id, status) == Obj(("id" :> Num(id)) @@ ("status" :> Str(status)))
        parent(id, status) ==
            Put(task(id, status), "subtasks", Arr(<<task(1, "pending")>>))
    IN { <<>>, <<task(1, "pending")>>, <<task(1, "Done")>>,
         <<parent(2, "done"), task(1, "pending")>>,
         <<parent(2, "pending"), task(1, "pending")>> }

\* fetchTasks() is called (on load, by the refresh button, after an update):
\* the list shows the loading message and the request is sent
FetchTasks ==
    /\ fetches < MaxFetches
    /\ fetches' = fetches + 1
    /\ tasksList' = <<>>
    /\ UNCHANGED <<state, aiVars, store, queued, handling, last, served,
                   spawned, returned>>

\* the response of a fetchTasks arrives: state.tasks is set and renderTasks
\* runs
FetchTasksResolves ==
    /\ fetches > 0
    /\ fetches' = fetches - 1
    /\ \E tasks \in TaskListsOfUi :
         /\ state' = renderTasks([state EXCEPT !.tasks = tasks])
         /\ tasksList' = SortById(getFilteredTasks([state EXCEPT !.tasks = tasks]))
    /\ UNCHANGED <<aiVars, store, queued, handling, last, served,
                   spawned, returned>>

\* the request of a fetchTasks fails: the list shows the error message
FetchTasksFails ==
    /\ fetches > 0
    /\ fetches' = fetches - 1
    /\ tasksList' = <<>>
    /\ UNCHANGED <<state, aiVars, store, queued, handling, last, served,
                   spawned, returned>>

\* handleStatusFilterChange(): the filter is set and renderTasks runs
HandleStatusFilterChange ==
    /\ \E value \in {"all", "pending", "done", "deferred"} :
         /\ state' = renderTasks([state EXCEPT !.statusFilter = value])
         /\ tasksList' = SortById(getFilteredTasks([state EXCEPT !.statusFilter = value]))
    /\ UNCHANGED <<fetches, aiVars, store, queued, handling, last, served,
                   spawned, returned>>

\* a click on a task of the list
ClickTask ==
    /\ \E i \in 1..Len(tasksList) :
         state' = selectTask(state, tasksList[i], Null)
    /\ UNCHANGED <<fetches, tasksList, aiVars, store, queued, handling, last,
                   served, spawned, returned>>

\* a click on a subtask of a task of the list: the parent is looked up in
\* state.tasks and selected with the subtask
ClickSubtask ==
    /\ \E i \in 1..Len(tasksList) :
         /\ IsArray(Get(tasksList[i], "subtasks"))
         /\ \E j \in 1..Len(Get(tasksList[i], "subtasks").a),
               k \in 1..Len(state.tasks) :
              /\ Get(state.tasks[k], "id") = Get(tasksList[i], "id")
              /\ \A before \in 1..(k - 1) :
                    Get(state.tasks[before], "id") # Get(tasksList[i], "id")
              /\ state' = selectTask(state, state.tasks[k],
                                     Get(Get(tasksList[i], "subtasks").a[j], "id"))
    /\ UNCHANGED <<fetches, tasksList, aiVars, store, queued, handling, last,
                   served, spawned, returned>>

UiNext ==
    \/ FetchTasks
    \/ FetchTasksResolves
    \/ FetchTasksFails
    \/ HandleStatusFilterChange
    \/ ClickTask
    \/ ClickSubtask

UiSpec == Init /\ [][UiNext]_vars

---------------------------------------------------------------------------
(* The MCP tools (src/mcp-server/src/tools/utils.js):                      *)
(* executeTaskMasterCommand spawns the global CLI, falls back to the local *)
(* script and turns the result of the command into its return value        *)

\* What spawnSync returns: an error (the program is missing, may not be
\* run, ran out of time) with no status and no output, or an exit status
\* (null when a signal ended the command) with stdout and stderr
SpawnResults ==
    { [error |-> code, status |-> Null, stdout |-> Null, stderr |-> Null] :
        code \in {"ENOENT", "EACCES", "ETIMEDOUT"} }
      \cup { [error |-> "none", status |-> status, stdout |-> Str(out),
              stderr |-> Str(err)] :
               status \in {Num(0), Num(1), Num(2), Null},
               out \in {"", "out"}, err \in {"", " ", "err"} }

\* what executeTaskMasterCommand does with result when nothing catches what
\* it throws
OutcomeUncaught(res) ==
    LET trim(str) == IF str = " " THEN "" ELSE str
        errorOutput == IF ~Falsy(res.stderr) THEN trim(res.stderr.s)
                       ELSE IF ~Falsy(res.stdout) THEN trim(res.stdout.s)
                       ELSE "Unknown error"
    IN IF res.error # "none"
       THEN [kind |-> "throw",
             value |-> <<"Command execution error: ", res.error>>]
       ELSE IF res.status # Num(0)
       THEN [kind |-> "throw",
             value |-> <<"Command failed with exit code ", res.status,
                         errorOutput>>]
       ELSE [kind |-> "return",
             value |-> [success |-> TRUE, stdout |-> res.stdout,
                        stderr |-> res.stderr]]

\* What executeTaskMasterCommand does with the result of the last spawn:
\* an error of the spawn and an exit status other than 0 are thrown and
\* caught, and returned as { success: false, error }
Outcome(res) ==
    LET trim(str) == IF str = " " THEN "" ELSE str
        errorOutput == IF ~Falsy(res.stderr) THEN trim(res.stderr.s)
                       ELSE IF ~Falsy(res.stdout) THEN trim(res.stdout.s)
                       ELSE "Unknown error"
    IN IF res.error # "none"
       THEN [kind |-> "return",
             value |-> [success |-> FALSE,
                        error |-> <<"Command execution error: ", res.error>>]]
       ELSE IF res.status # Num(0)
       THEN [kind |-> "return",
             value |-> [success |-> FALSE,
                        error |-> <<"Command failed with exit code ",
                                    res.status, errorOutput>>]]
       ELSE [kind |-> "return",
             value |-> [success |-> TRUE, stdout |-> res.stdout,
                        stderr |-> res.stderr]]

\* executeTaskMasterCommand(command, log, args, cwd) is called and spawns
\* the global CLI
ExecuteTaskMasterCommand ==
    /\ spawned = <<>>
    /\ returned = <<>>
    /\ \E command \in {"list", "next"}, res \in SpawnResults :
         spawned' = <<[program |-> "task-manager", args |-> <<command>>,
                       result |-> res]>>
    /\ UNCHANGED <<returned, aiVars, store, queued, handling, last, served,
                   state, fetches, tasksList>>

\* the global CLI is missing: the local script is spawned with the same
\* arguments
FallBackToLocalScript ==
    /\ Len(spawned) = 1
    /\ returned = <<>>
    /\ spawned[1].result.error = "ENOENT"
    /\ \E res \in SpawnResults :
         spawned' = Append(spawned,
                           [program |-> "node",
                            args |-> <<"scripts/dev.js">> \o spawned[1].args,
                            result |-> res])
    /\ UNCHANGED <<returned, aiVars, store, queued, handling, last, served,
                   state, fetches, tasksList>>

\* the function is left, with what the result of the last spawn gives
CommandReturns ==
    /\ spawned # <<>>
    /\ returned = <<>>
    /\ Len(spawned) = 1 => spawned[1].result.error # "ENOENT"
    /\ returned' = <<Outcome(spawned[Len(spawned)].result)>>
    /\ UNCHANGED <<spawned, aiVars, store, queued, handling, last, served,
                   state, fetches, tasksList>>

ToolNext ==
    \/ ExecuteTaskMasterCommand
    \/ FallBackToLocalScript
    \/ CommandReturns

ToolSpec == Init /\ [][ToolNext]_vars

---------------------------------------------------------------------------
(* Two invocations in flight.  The functions are async: an invocation runs *)
(* until it awaits (the provider call, the research call, the wait before  *)
(* a retry) and another one may run until it is resumed.  What an          *)
(* invocation keeps in parameters and local variables is its own; the      *)
(* module variable perplexity and CONFIG are shared.                       *)

\* the parameters and locals of the handling invocation
Locals ==
    [pc |-> pc, op |-> op, numTasks |-> numTasks, knowledge |-> knowledge,
     frames |-> frames, parseRetry |-> parseRetry, text |-> text, sent |-> sent,
     log |-> log, waits |-> waits, result |-> result, error |-> error,
     fallback |-> fallback, startId |-> startId, parentId |-> parentId,
     perplexityClient |-> perplexityClient, apiKey |-> apiKey,
     researchLog |-> researchLog, timers |-> timers, indicators |-> indicators]

\* those of an invocation that has not started
IdleLocals ==
    [pc |-> "idle", op |-> "none", numTasks |-> 0, knowledge |-> FALSE,
     frames |-> <<>>, parseRetry |-> 0, text |-> <<>>, sent |-> Undefined,
     log |-> <<>>, waits |-> <<>>, result |-> Undefined, error |-> NoError,
     fallback |-> FALSE, startId |-> 0, parentId |-> 0,
     perplexityClient |-> 0, apiKey |-> "unread",
     researchLog |-> <<>>, timers |-> 0, indicators |-> {}]

\* Resumed with a retry count that belongs to the module: the invocation
\* that resumes finds the count the running one has reached
ResumedWithSharedRetryCount(saved, running) ==
    IF saved.frames = <<>> \/ running.frames = <<>> THEN saved
    ELSE [saved EXCEPT !.frames[1].retryCount = running.frames[1].retryCount]

\* what an invocation finds when it is resumed: retryCount and the rest are
\* parameters of its own activations, so it finds what it left (saved),
\* whatever the invocation that ran meanwhile (running) has done
Resumed(saved, running) == saved

\* where an invocation can be when another one runs: not started, over, or
\* at one of its awaits
AwaitPoints == {"idle", "request", "wait", "expanding", "researching",
                "returned", "thrown"}

\* the handling invocation awaits and the other one runs
Switch ==
    /\ other # <<>>
    /\ pc \in AwaitPoints
    /\ other' = <<Locals>>
    /\ LET r == Resumed(other[1], Locals)
       IN /\ pc' = r.pc
          /\ op' = r.op
          /\ numTasks' = r.numTasks
          /\ knowledge' = r.knowledge
          /\ frames' = r.frames
          /\ parseRetry' = r.parseRetry
          /\ text' = r.text
          /\ sent' = r.sent
          /\ log' = r.log
          /\ waits' = r.waits
          /\ result' = r.result
          /\ error' = r.error
          /\ fallback' = r.fallback
          /\ startId' = r.startId
          /\ parentId' = r.parentId
          /\ perplexityClient' = r.perplexityClient
          /\ apiKey' = r.apiKey
          /\ researchLog' = r.researchLog
          /\ timers' = r.timers
          /\ indicators' = r.indicators
    /\ UNCHANGED <<useChinese, perplexity, created>>
    /\ UNCHANGED <<store, queued, handling, last, served, state, fetches, tasksList,
                   spawned, returned>>

ConcInit ==
    /\ Loaded
    /\ other = <<IdleLocals>>
    /\ store = InitialStore

ConcNext == Next \/ Switch

ConcSpec == ConcInit /\ [][ConcNext]_vars

---------------------------------------------------------------------------
(* Properties *)

\* provider call i failed with an error of classification class
FailedAt(i, class) ==
    /\ Len(log) >= i
    /\ log[i].out = "error"
    /\ Classify(log[i].err) = class

\* provider call i returned a text that the pipeline could parse
ParsedAt(i) == Len(log) >= i /\ log[i].out = "text" /\ log[i].parses

\* the raw message of the error of provider call i mentions a timeout or
\* the network
MentionsRetryWord(i) ==
    includes(log[i].err.message, "timeout") \/ includes(log[i].err.message, "network")

\* the elements of an array value, as a set
Elements(arr) == { arr.a[i] : i \in 1..Len(arr.a) }

\* every provider call so far returned a text that could not be parsed
AllUnparsed == \A i \in 1..Len(log) : log[i].out = "text" /\ ~log[i].parses

(* C1: in a decomposition whose provider answers every request, but always *)
(* with a text that cannot be parsed into a batch, the two parse retries   *)
(* are the end of it: the text of the first call is parsed twice, the      *)
(* request is sent once more, and when that text does not parse either the *)
(* fallback batch is returned; no third request is sent.                   *)
C1_FallbackAfterParseRetries ==
    (op = "decompose" /\ AllUnparsed /\ Len(log) >= 2)
        => \/ pc = "process" /\ parseRetry = 0
           \/ pc = "returned" /\ fallback

(* C2: when every call of the primary provider succeeds, no pipeline       *)
(* throws after such a call: extraction and validation errors never reach  *)
(* the caller as exceptions.                                               *)
C2_ParseErrorsAbsorbed ==
    (Len(log) >= 1 /\ \A i \in 1..Len(log) : log[i].out = "text") => pc # "thrown"

C2_Witness ==
    /\ pc = "returned"
    /\ op = "expand"
    /\ fallback
    /\ sent \in OddLists

(* C3: when the first two provider calls of a decomposition fail with a    *)
(* network error, each is followed by another call; when the third call    *)
(* returns a parseable text, exactly 3 calls were made and the batch       *)
(* parsed from the third text is returned, not a fallback.                 *)
C3_RetryAccounting ==
    /\ (op = "decompose" /\ FailedAt(1, "network") /\ Len(log) = 1)
          => pc \in {"wait", "request"}
    /\ (op = "decompose" /\ FailedAt(1, "network") /\ FailedAt(2, "network") /\ Len(log) = 2)
          => pc \in {"wait", "request"}
    /\ (op = "decompose" /\ FailedAt(1, "network") /\ FailedAt(2, "network") /\ ParsedAt(3))
          => /\ Len(log) = 3
             /\ pc \in {"process", "returned"}
             /\ ~fallback
             /\ pc = "returned" => Get(result, "tasks") = Get(sent, "tasks")

C3_Witness ==
    /\ op = "decompose"
    /\ pc = "returned"
    /\ FailedAt(1, "network") /\ FailedAt(2, "network") /\ ParsedAt(3)
    /\ Len(Get(result, "tasks").a) > 0

\* the first provider call of a decomposition failed with a terminal error
TerminalFirst(classes) ==
    /\ op = "decompose"
    /\ \E c \in classes : FailedAt(1, c)

\* the decomposition failed after one call, without wait and without fallback
FailedAtOnce ==
    /\ pc = "thrown"
    /\ error # NoError
    /\ Len(log) = 1
    /\ waits = <<>>
    /\ ~fallback

(* C4 as stated: when the first provider call fails with permissionDenied, *)
(* malformedRequest or an unknown error, exactly 1 call is made, no wait   *)
(* occurs, the error reaches the caller and no fallback is made.           *)
C4_TerminalErrors_Original ==
    TerminalFirst({"permissionDenied", "malformedRequest", "unknown"}) => FailedAtOnce

(* C4 amended: the same for permissionDenied, malformedRequest and the     *)
(* unknown errors whose message mentions neither 'timeout' nor 'network'.  *)
C4_TerminalErrors ==
    /\ TerminalFirst({"permissionDenied", "malformedRequest"}) => FailedAtOnce
    /\ (TerminalFirst({"unknown"}) /\ ~MentionsRetryWord(1)) => FailedAtOnce

C4_Witness ==
    /\ TerminalFirst({"permissionDenied"})
    /\ pc = "thrown"

(* C5: a decomposition whose first provider call fails with                *)
(* quotaExhausted does not fail after that one call: the request is sent   *)
(* again.                                                                  *)
C5_QuotaRetried ==
    (op = "decompose" /\ FailedAt(1, "quotaExhausted") /\ Len(log) = 1) => pc # "thrown"

(* C6: a decomposition whose first provider call fails with a timeout      *)
(* does not fail after that one call: the request is sent again.           *)
C6_TimeoutRetried ==
    (op = "decompose" /\ FailedAt(1, "timeout") /\ Len(log) = 1) => pc # "thrown"

\* the text carries the JSON of the value the provider meant, bare or with
\* prose around it
Intact == text = Stringify(sent) \/ text = <<"x">> \o Stringify(sent) \o <<"x">>

\* the ids of the returned list are start, start + 1, ... in this order
IdsCountFrom(list, start) ==
    \A i \in 1..Len(list.a) : Get(list.a[i], "id") = Num(start + i - 1)

(* C7: when the reply holds an array of k subtask objects, whatever their  *)
(* ids, the expansion returns k subtasks in the order of the reply whose   *)
(* ids are startId, startId + 1, ..., startId + k - 1.                     *)
C7_SubtaskIdsReconciled ==
    (op = "expand" /\ pc = "returned" /\ sent \in SubtaskLists /\ Intact)
        => /\ ~fallback
           /\ Len(result.a) = Len(sent.a)
           /\ IdsCountFrom(result, startId)
           /\ \A i \in 1..Len(result.a) :
                Get(result.a[i], "description") = Get(sent.a[i], "description")

C7_Witness ==
    /\ op = "expand"
    /\ pc = "returned"
    /\ Intact
    /\ sent = SubtaskList(MaxLen, [i \in 1..MaxLen |-> ("id" :> Str("1"))])
    /\ startId = 3

\* the text has no "[" ... "]" pair in this order, or what lies between the
\* first "[" and the last "]" is no JSON
NoArrayInText ==
    \/ indexOf(text, "[") = -1
    \/ lastIndexOf(text, "]") = -1
    \/ lastIndexOf(text, "]") < indexOf(text, "[")
    \/ ~JSONparse(substring(text, indexOf(text, "["), lastIndexOf(text, "]") + 1)).ok

(* C8: when the reply has no "[" ... "]" pair, or "]" comes before "[", or *)
(* the slice does not parse, the expansion returns a fallback list of      *)
(* exactly the requested number of subtasks, with ids startId,             *)
(* startId + 1, ...                                                        *)
C8_FallbackSize ==
    (op = "expand" /\ pc = "returned" /\ NoArrayInText)
        => /\ fallback
           /\ Len(result.a) = numTasks
           /\ IdsCountFrom(result, startId)

C8_Witness ==
    /\ op = "expand"
    /\ pc = "returned"
    /\ text = <<"]", "[">>
    /\ numTasks = MaxCount
    /\ startId = 3

(* C9: every batch a decomposition returns has metadata.totalTasks equal   *)
(* to the number of its tasks.                                             *)
C9_TotalTasksMatches ==
    (op = "decompose" /\ pc = "returned")
        => Get(Get(result, "metadata"), "totalTasks") = Num(Len(Get(result, "tasks").a))

\* the tasks of a returned batch, or the subtasks of a returned list
ReturnedItems ==
    IF op \in {"decompose", "parse"} THEN Get(result, "tasks") ELSE result

\* every dependency of item is a number below the item's own id
DependenciesBelowId(item) ==
    LET deps == Get(item, "dependencies")
        id == Get(item, "id")
    IN IsArray(deps) =>
         \A d \in Elements(deps) : d.t = "num" /\ id.t = "num" /\ d.n < id.n

(* C10: every task of a returned batch and every subtask of a returned     *)
(* list depends only on ids strictly below its own id.                     *)
C10_DependenciesBelowId ==
    pc = "returned"
        => \A item \in Elements(ReturnedItems) : item.t = "obj" => DependenciesBelowId(item)


\* the dependencies list after matches the list before it: numeric strings
\* have become their integers, numbers are kept, the order is the same
Coerced(before, after) ==
    /\ IsArray(after)
    /\ Len(after.a) = Len(before.a)
    /\ \A j \in 1..Len(before.a) :
         /\ before.a[j].t = "num" => after.a[j] = before.a[j]
         /\ (before.a[j].t = "str" /\ IsNumTok(before.a[j].s))
               => after.a[j] = Num(NumVal(before.a[j].s))

(* C11: in the subtasks an expansion returns from a reply, every           *)
(* dependency that was a numeric string is the corresponding integer and   *)
(* every numeric dependency is kept, in the order of the reply; a subtask  *)
(* whose dependencies were absent or no array has dependencies [].         *)
C11_DependenciesCoerced ==
    (op = "expand" /\ pc = "returned" /\ sent \in SubtaskLists /\ Intact)
        => \A i \in 1..Len(sent.a) :
             LET before == Get(sent.a[i], "dependencies")
                 after == Get(result.a[i], "dependencies")
             IN IF IsArray(before) THEN Coerced(before, after)
                ELSE after = Arr(<<>>)

C11_Witness ==
    /\ op = "expand"
    /\ pc = "returned"
    /\ Intact
    /\ Len(sent.a) = MaxLen
    /\ Get(sent.a[1], "dependencies") = Arr(<<Str("1"), Num(2)>>)
    /\ Get(result.a[1], "dependencies") = NumArr(<<1, 2>>)

\* the fields that have a translation, each with its translation field
TransPairs == { <<"title", "titleTrans">>, <<"description", "descriptionTrans">>,
                <<"details", "detailsTrans">>, <<"testStrategy", "testStrategyTrans">> }

(* C12: in the subtasks an expansion returns from a reply, with bilingual  *)
(* mode on every translation field that the reply left out, while its      *)
(* primary field is populated, is the empty string, and the reply is       *)
(* still parsed (no fallback); with bilingual mode off a translation       *)
(* field the reply left out is still absent.                               *)
C12_BilingualRepair ==
    (op = "expand" /\ pc = "returned" /\ sent \in SubtaskLists /\ Intact)
        => /\ ~fallback
           /\ \A i \in 1..Len(sent.a) : \A p \in TransPairs :
                ~HasField(sent.a[i], p[2])
                  => IF useChinese
                     THEN ~Falsy(Get(sent.a[i], p[1]))
                            => Get(result.a[i], p[2]) = Str("")
                     ELSE ~HasField(result.a[i], p[2])

C12_Witness ==
    /\ op = "expand"
    /\ pc = "returned"
    /\ useChinese
    /\ Intact
    /\ Len(sent.a) = 1
    /\ Get(sent.a[1], "titleTrans") = Str("zh")
    /\ Get(sent.a[1], "details") = Str("B")
    /\ Get(result.a[1], "titleTrans") = Str("zh")
    /\ Get(result.a[1], "detailsTrans") = Str("")
    /\ ~HasField(result.a[1], "testStrategyTrans")


\* the research call of the invocation failed
ResearchFailed == Len(researchLog) = 1 /\ researchLog[1].out = "error"

(* C13: a research-backed expansion calls the research provider at most    *)
(* once, and exactly once in every invocation that got past obtaining the  *)
(* client and has left the research call; when that call fails, the        *)
(* invocation throws that very error, the primary provider has not been    *)
(* called and nothing, real or fallback, is returned.                      *)
C13_ResearchOnceAndFatal ==
    op = "research"
        => /\ Len(researchLog) <= 1
           /\ (perplexityClient # 0 /\ pc # "researching") => Len(researchLog) = 1
           /\ ResearchFailed
                 => /\ pc = "thrown"
                    /\ error = researchLog[1].err
                    /\ log = <<>>
                    /\ result = Undefined
                    /\ ~fallback

C13_Witness ==
    /\ op = "research"
    /\ pc = "thrown"
    /\ researchLog = <<[out |-> "error", err |-> Err("none", <<"Network unreachable">>)]>>
    /\ log = <<>>

(* C14: when the research expansion finds PERPLEXITY_API_KEY absent it     *)
(* throws the configuration error before any provider call and caches no   *)
(* client; decomposition and plain expansion never read the key and never  *)
(* throw that error; every client an invocation obtains is the one         *)
(* instance that was constructed first.                                    *)
C14_ResearchCredential ==
    /\ (op = "research" /\ apiKey = "absent")
          => /\ pc = "thrown"
             /\ error = NewError(<<MissingKeyMessage>>)
             /\ researchLog = <<>>
             /\ log = <<>>
             /\ perplexity = 0
             /\ perplexityClient = 0
    /\ op \in {"decompose", "expand"}
          => /\ apiKey = "unread"
             /\ error.message # <<MissingKeyMessage>>
    /\ perplexityClient # 0 => (perplexityClient = 1 /\ perplexity = 1)
    /\ created <= 1

C14_Witness ==
    /\ op = "research"
    /\ apiKey = "absent"
    /\ pc = "thrown"
    /\ created = 0

(* C15: when an invocation has returned or thrown, no animation interval   *)
(* it started is still active and its loading indicator is stopped.        *)
C15_TimersStopped ==
    pc \in {"returned", "thrown"} => (timers = 0 /\ loadingIndicator \notin indicators)

(* C16: when a research-backed expansion has returned or thrown, the       *)
(* research loading indicator is stopped.                                  *)
C16_ResearchIndicatorStopped ==
    (op = "research" /\ pc \in {"returned", "thrown"})
        => researchLoadingIndicator \notin indicators

(* C17: an expansion, plain or research-backed, whose first call of the    *)
(* primary provider fails with a network, timeout or quotaExhausted error  *)
(* does not fail after that one call: the request is sent again.           *)
C17_ExpansionRetries ==
    (/\ op \in {"expand", "research"}
     /\ Len(log) = 1
     /\ \E c \in {"network", "timeout", "quotaExhausted"} : FailedAt(1, c))
        => pc # "thrown"

\* the provider calls whose text could not be parsed and that were followed
\* by another request: the re-sends that parse failures caused
ParseResends ==
    { i \in 1..Len(log) : i < Len(log) /\ log[i].out = "text" /\ ~log[i].parses }

(* C18: in a decomposition a text is parsed at most twice more after its   *)
(* first failure (retry counts 0, 1), and over the whole invocation parse  *)
(* failures cause at most one re-send of the request.                      *)
C18_ParseRetryProtocol ==
    op = "decompose"
        => /\ parseRetry < MaxParseRetries
           /\ Cardinality(ParseResends) <= 1

(* C19: when a decomposition throws after a single provider call that      *)
(* failed with permissionDenied or malformedRequest, the message of the    *)
(* error the caller receives is exactly the user message of that           *)
(* classification.                                                         *)
C19_TerminalMessageUnmodified ==
    (TerminalFirst({"permissionDenied", "malformedRequest"}) /\ pc = "thrown")
        => error.message = handleGeminiError(log[1].err)

(* C20: in a decomposition invoked with a knowledge base, every request    *)
(* sent to the provider carries the knowledge base.                        *)
C20_KnowledgeInEveryRequest ==
    (op = "decompose" /\ knowledge)
        => \A i \in 1..Len(log) : log[i].knowledgeBase


\* the ids of the task objects of a list are pairwise different positive
\* integers, and every element of the list is a task object with an id
UniquePositiveIds(list) ==
    /\ \A i \in 1..Len(list.a) :
         /\ list.a[i].t = "obj"
         /\ Get(list.a[i], "id").t = "num"
         /\ Get(list.a[i], "id").n >= 1
    /\ \A i, j \in 1..Len(list.a) :
         i # j => Get(list.a[i], "id") # Get(list.a[j], "id")

(* C21: in every batch a decomposition returns, the task ids are positive  *)
(* integers and no two tasks share an id.                                  *)
C21_TaskIdsUnique ==
    (op = "decompose" /\ pc = "returned")
        => UniquePositiveIds(Get(result, "tasks"))

(* C22: reconciling an already reconciled list again, with the same        *)
(* startId, parent id and bilingual flag, changes nothing.                 *)
C22_ReconciliationIdempotent ==
    (op \in {"expand", "research"} /\ pc = "returned" /\ ~fallback)
        => \A i \in 1..Len(result.a) :
             /\ ~NormalizeThrows(result.a[i])
             /\ NormalizeSubtask(result.a[i], i - 1, startId, parentId, useChinese)
                   = result.a[i]

C22_Witness ==
    /\ op = "expand"
    /\ pc = "returned"
    /\ ~fallback
    /\ Intact
    /\ startId = 3
    /\ useChinese
    /\ Len(result.a) = MaxLen
    /\ Get(sent.a[1], "dependencies") = Arr(<<Str("1"), Num(2)>>)
    /\ sent # result

(* C24: a well-formed reply is returned as it is whatever the number of    *)
(* its items: a well-formed batch is never parsed a second time; a         *)
(* decomposition whose first text parses makes no second call, no wait and *)
(* no fallback and returns the tasks of the reply; an expansion returns as *)
(* many subtasks as the reply's list has.                                  *)
C24_CountMismatchAccepted ==
    /\ (op = "decompose" /\ pc = "process" /\ sent \in WellShapedBatches /\ Intact)
          => parseRetry = 0
    /\ (op = "decompose" /\ ParsedAt(1))
          => /\ Len(log) = 1
             /\ waits = <<>>
             /\ ~fallback
             /\ pc \in {"process", "returned"}
             /\ (pc = "returned" /\ Intact)
                   => Get(result, "tasks") = Get(sent, "tasks")
    /\ (op \in {"expand", "research"} /\ pc = "returned" /\ sent \in SubtaskLists /\ Intact)
          => /\ ~fallback
             /\ Len(result.a) = Len(sent.a)

C24_Witness ==
    /\ op = "decompose"
    /\ pc = "returned"
    /\ numTasks = MaxCount
    /\ Intact
    /\ Len(Get(sent, "tasks").a) = 1
    /\ Len(Get(result, "tasks").a) = 1

(* C27: when the first three provider calls of a decomposition fail with a *)
(* network error, no fourth call is made: the decomposition has thrown,    *)
(* has returned nothing and has made no fallback.                          *)
C27_ExhaustedRetriesFatal ==
    (op = "decompose" /\ FailedAt(1, "network") /\ FailedAt(2, "network")
       /\ FailedAt(3, "network"))
        => /\ Len(log) = 3
           /\ pc = "thrown"
           /\ error # NoError
           /\ result = Undefined
           /\ ~fallback

C27_Witness ==
    /\ op = "decompose"
    /\ pc = "thrown"
    /\ Len(log) = 3
    /\ \A i \in 1..3 : FailedAt(i, "network")
    /\ Len(waits) = 2

\* the provider calls of the invocation that failed
FailedCalls == { i \in 1..Len(log) : log[i].out = "error" }

(* C28: in a decomposition the k-th wait lasts 5k seconds (5, then 10),    *)
(* there are at most two, and every failed provider call that was not the  *)
(* end of the invocation has had its wait started before anything else     *)
(* happens: while the invocation waits or calls again, the waits are as    *)
(* many as the failed calls.                                               *)
C28_BackoffOrdering ==
    op = "decompose"
        => /\ Len(waits) <= MaxRetries
           /\ \A k \in 1..Len(waits) : waits[k] = 5 * k
           /\ Len(waits) = Cardinality(FailedCalls) - (IF pc = "thrown" THEN 1 ELSE 0)

C28_Witness ==
    /\ op = "decompose"
    /\ pc = "request"
    /\ waits = <<5, 10>>
    /\ Len(log) = 2

(* C29: every subtask an expansion returns, parsed or fallback, has status *)
(* pending and the parentTaskId of the task that was expanded.             *)
C29_StatusAndParentStamped ==
    (op \in {"expand", "research"} /\ pc = "returned")
        => \A i \in 1..Len(result.a) :
             /\ Get(result.a[i], "status") = Str("pending")
             /\ Get(result.a[i], "parentTaskId") = Num(parentId)

C29_Witness ==
    /\ op = "expand"
    /\ pc = "returned"
    /\ ~fallback
    /\ Len(sent.a) = 1
    /\ Get(sent.a[1], "status") = Str("done")
    /\ Get(sent.a[1], "parentTaskId") = Num(9)
    /\ parentId = 2

(* C30: every dependency entry of every subtask an expansion returns is an *)
(* integer.                                                                *)
C30_DependenciesAreIntegers ==
    (op \in {"expand", "research"} /\ pc = "returned")
        => \A i \in 1..Len(result.a) :
             \A d \in Elements(Get(result.a[i], "dependencies")) : d.t = "num"


\* the tasks of a batch are n placeholders: ids 1..n, pending, of medium
\* priority, the first without dependencies, each other depending on the
\* one before it alone
PlaceholderChain(tasks, n) ==
    /\ Len(tasks.a) = n
    /\ \A i \in 1..n :
         /\ Get(tasks.a[i], "id") = Num(i)
         /\ Get(tasks.a[i], "status") = Str("pending")
         /\ Get(tasks.a[i], "priority") = Str("medium")
         /\ Get(tasks.a[i], "dependencies")
               = (IF i = 1 THEN Arr(<<>>) ELSE Arr(<<Num(i - 1)>>))

(* C25: a fallback batch has exactly numTasks tasks with ids 1..numTasks,  *)
(* status pending, priority medium, task 1 without dependencies and task   *)
(* i > 1 depending on task i - 1 alone, and its metadata says that it is a *)
(* fallback; a fallback subtask list has the requested number of pending   *)
(* subtasks without dependencies, each described as a fallback subtask.    *)
C25_FallbackWellFormed ==
    /\ (op \in {"decompose", "parse"} /\ pc = "returned" /\ fallback)
          => /\ PlaceholderChain(Get(result, "tasks"), numTasks)
             /\ Get(Get(result, "metadata"), "totalTasks") = Num(numTasks)
             /\ Get(Get(result, "metadata"), "note")
                   = Str("Generated as fallback due to parsing error.")
    /\ (op \in {"expand", "research"} /\ pc = "returned" /\ fallback)
          => /\ Len(result.a) = numTasks
             /\ \A i \in 1..Len(result.a) :
                  /\ Get(result.a[i], "description")
                        = Str("Auto-generated fallback subtask")
                  /\ Get(result.a[i], "status") = Str("pending")
                  /\ Get(result.a[i], "dependencies") = Arr(<<>>)

C25_Witness ==
    /\ op = "parse"
    /\ pc = "returned"
    /\ fallback
    /\ numTasks = MaxCount
    /\ text = <<"x">>


\* block a stands before block b in prompt p
Before(p, a, b) == indexOf(p, a) # -1 /\ indexOf(p, a) < indexOf(p, b)

(* C26 as stated: in the prompt a research-backed expansion sends to the   *)
(* primary provider the research findings stand after the knowledge base   *)
(* and before the task's description.                                      *)
C26_ResearchBlockOrder_Original ==
    op = "research"
        => \A i \in 1..Len(log) :
             /\ Before(log[i].prompt, "researchResult", "task.description")
             /\ knowledge => Before(log[i].prompt, "knowledgeBase", "researchResult")

(* C26 amended: the research findings stand after the task's description   *)
(* and, when there is a knowledge base, before it.                         *)
C26_ResearchBlockOrder ==
    op = "research"
        => \A i \in 1..Len(log) :
             /\ Before(log[i].prompt, "task.description", "researchResult")
             /\ knowledge => Before(log[i].prompt, "researchResult", "knowledgeBase")

C26_Witness ==
    /\ op = "research"
    /\ knowledge
    /\ useChinese
    /\ Len(log) = 1
    /\ pc = "returned"


\* the failed provider calls in the log of an invocation
FailedIn(c) == { i \in 1..Len(c.log) : c.log[i].out = "error" }

\* What invocation c has is its own: in a decomposition the retry count of
\* callGemini is the number of waits c has made, the waits are 5 and 10
\* seconds, at most two, one for each of c's failed calls that was retried,
\* and the batch returned is the one parsed from c's text; an expansion has
\* made one provider call and returns what its own text gives
OwnState(c) ==
    /\ (c.op = "decompose" /\ c.pc \in {"request", "wait", "process"})
          => (c.frames # <<>> /\ c.frames[1].retryCount = Len(c.waits))
    /\ c.op = "decompose"
          => /\ Len(c.waits) <= MaxRetries
             /\ \A k \in 1..Len(c.waits) : c.waits[k] = 5 * k
             /\ Len(c.waits)
                   = Cardinality(FailedIn(c)) - (IF c.pc = "thrown" THEN 1 ELSE 0)
             /\ c.parseRetry < MaxParseRetries
             /\ (c.pc = "returned" /\ ~c.fallback)
                   => c.result = ParseBatch(c.text, c.numTasks).v
    /\ (c.op \in {"expand", "research"} /\ c.pc = "returned")
          => /\ Len(c.log) = 1
             /\ c.result = parseSubtasksFromText(c.text, c.startId, c.numTasks,
                                                 c.parentId, useChinese).v
    /\ c.perplexityClient \in {0, 1}

(* C23: with two invocations interleaved at their awaits, each has its own *)
(* retry counts, provider calls and result: what holds of an invocation    *)
(* that runs alone holds of the handling and of the suspended one.          *)
C23_InvocationsIndependent ==
    other # <<>> => (OwnState(Locals) /\ OwnState(other[1]))

C23_Witness ==
    /\ other # <<>>
    /\ op = "decompose"
    /\ pc = "wait"
    /\ waits = <<5>>
    /\ other[1].op = "decompose"
    /\ other[1].pc = "thrown"
    /\ other[1].waits = <<5, 10>>


(* C31: a decomposition reply that parses is returned with its tasks as    *)
(* they are; a reply without metadata (none, or null) gets metadata with   *)
(* projectName 'PRD Implementation', totalTasks = the number of its tasks  *)
(* and the path of the source document, and nothing else is changed; a     *)
(* reply with metadata is returned as it is.                               *)
C31_MetadataHandling ==
    (op \in {"decompose", "parse"} /\ pc = "returned" /\ ~fallback /\ Intact)
        => /\ Get(result, "tasks") = Get(sent, "tasks")
           /\ Get(sent, "metadata") \in {Undefined, Null}
                 => /\ Get(Get(result, "metadata"), "projectName")
                         = Str("PRD Implementation")
                    /\ Get(Get(result, "metadata"), "totalTasks")
                         = Num(Len(Get(sent, "tasks").a))
                    /\ Get(Get(result, "metadata"), "sourceFile") = Str(prdPath)
                    /\ result = Put(sent, "metadata", Get(result, "metadata"))
           /\ Get(sent, "metadata") \notin {Undefined, Null} => result = sent

C31_Witness ==
    /\ op = "decompose"
    /\ pc = "returned"
    /\ ~fallback
    /\ Intact
    /\ Get(sent, "metadata") = Undefined
    /\ Len(Get(sent, "tasks").a) = MaxLen
    /\ Get(Get(result, "metadata"), "totalTasks") = Num(MaxLen)


(* C32: a plain expansion calls the primary provider once: never twice,    *)
(* and once when it is over; when the text of the reply cannot be parsed   *)
(* it returns the fallback list after that one call; when the call fails   *)
(* it throws the error of the call and returns nothing, no fallback        *)
(* either.                                                                 *)
C32_ExpansionCallsOnce ==
    op = "expand"
        => /\ Len(log) <= 1
           /\ pc \in {"returned", "thrown"} => Len(log) = 1
           /\ (Len(log) = 1 /\ log[1].out = "text" /\ ~log[1].parses)
                 => /\ pc = "returned"
                    /\ fallback
                    /\ result = FallbackSubtasks(startId, numTasks, parentId, useChinese)
           /\ (Len(log) = 1 /\ log[1].out = "error")
                 => /\ pc = "thrown"
                    /\ error = log[1].err
                    /\ result = Undefined
                    /\ ~fallback

C32_Witness ==
    /\ op = "expand"
    /\ pc = "returned"
    /\ Len(log) = 1
    /\ text = <<"x">>
    /\ fallback
    /\ numTasks = MaxCount
    /\ Len(result.a) = MaxCount


---------------------------------------------------------------------------
(* Properties of the web server *)

\* the tasks of a tasks file, none when it has no tasks array
TasksOf(file) == IF IsArray(Get(file, "tasks")) THEN Get(file, "tasks").a ELSE <<>>

\* the request answered last was a PUT / a GET, answered with status
LastPut(status) ==
    /\ last # <<>>
    /\ last[1].req.route \in {"putTask", "putSubtask"}
    /\ last[1].status = status
LastGet(status) ==
    /\ last # <<>>
    /\ last[1].req.route \in {"getTasks", "getTask"}
    /\ last[1].status = status

\* where the item a PUT addresses is in file: the index of its task and,
\* for a subtask, the index of the subtask (0 for none)
PathOf(req, file) ==
    LET taskIndex == findIndex(TasksOf(file), req.taskId)
        subtasks == IF taskIndex = 0 THEN Undefined
                    ELSE Get(TasksOf(file)[taskIndex], "subtasks")
    IN IF req.route = "putTask" THEN <<taskIndex>>
       ELSE IF taskIndex = 0 \/ ~IsArray(subtasks) THEN <<taskIndex, 0>>
       ELSE <<taskIndex, findIndex(subtasks.a, req.subtaskId)>>

\* the task or subtask at a path of file
ItemAt(file, path) ==
    IF Len(path) = 1 THEN TasksOf(file)[path[1]]
    ELSE Get(TasksOf(file)[path[1]], "subtasks").a[path[2]]

\* the stored item the last PUT addressed, before and after it
ItemBefore == ItemAt(last[1].before, PathOf(last[1].req, last[1].before))
ItemAfter == ItemAt(store, PathOf(last[1].req, last[1].before))

(* C33: the handlers run one at a time: a handler that has read the tasks  *)
(* file and has not answered holds the file as it is, no other handler is  *)
(* between its read and its write, and the file after a PUT answered with  *)
(* success is the file as it was just before the answer with that one      *)
(* update made, so that no update answered before is lost.                 *)
C33_PutHandlersAtomic ==
    /\ Len(handling) <= 1
    /\ \A i \in 1..Len(handling) : handling[i].data = store
    /\ (LastPut(200) /\ last[1].req.route = "putTask")
          => store = putTask(last[1].before, last[1].req.taskId,
                             last[1].req.body).file
    /\ (LastPut(200) /\ last[1].req.route = "putSubtask")
          => store = putSubtask(last[1].before, last[1].req.taskId,
                                last[1].req.subtaskId, last[1].req.body).file

C33_Witness ==
    /\ served = 2
    /\ LastPut(200)
    /\ last[1].req = Request("putSubtask", 1, 2, "", Obj("title" :> Str("X")))
    /\ last[1].before # InitialStore
    /\ Get(TasksOf(store)[1], "titleTrans") = Str("X")
    /\ Get(ItemAfter, "title") = Str("X")

(* C34: after a PUT answered with success, for every primary field the     *)
(* body carries and whose translation is non-empty in the stored item, the *)
(* stored primary field is what it was and the translation is the value    *)
(* the body carried.                                                       *)
C34_PutPreservesPrimaryText ==
    LastPut(200)
        => \A f \in PrimaryFields :
             (/\ HasField(last[1].req.body, f)
              /\ HasField(ItemBefore, Trans(f))
              /\ ~Falsy(Get(ItemBefore, Trans(f))))
                => /\ Get(ItemAfter, f) = Get(ItemBefore, f)
                   /\ Get(ItemAfter, Trans(f)) = Get(last[1].req.body, f)

(* C35: a PUT addressed to a task id that is not in the file, to a parent  *)
(* without a subtasks array or to a subtask id that is not in the parent   *)
(* is answered 404, and a PUT answered 404 leaves the file as it was.      *)
C35_FailedPutLeavesStore ==
    /\ (/\ last # <<>>
        /\ last[1].req.route \in {"putTask", "putSubtask"}
        /\ \E k \in 1..Len(PathOf(last[1].req, last[1].before)) :
               PathOf(last[1].req, last[1].before)[k] = 0)
          => last[1].status = 404
    /\ LastPut(404) => store = last[1].before

C35_Witness ==
    /\ LastPut(404)
    /\ last[1].req.route = "putSubtask"
    /\ last[1].req.taskId = 1
    /\ last[1].req.subtaskId = 3
    /\ last[1].req.body = Obj("title" :> Str("X"))
    /\ store = InitialStore

\* the ids of the tasks of file are pairwise distinct
UniqueTaskIds(file) ==
    \A i, j \in 1..Len(TasksOf(file)) :
        i # j => Get(TasksOf(file)[i], "id") # Get(TasksOf(file)[j], "id")

(* C36: after a PUT /api/tasks/:taskId answered with success on a file     *)
(* whose task ids were pairwise distinct, the task addressed still has the *)
(* id :taskId and the task ids of the file are still pairwise distinct.    *)
C36_TaskIdsStable ==
    (LastPut(200) /\ last[1].req.route = "putTask" /\ UniqueTaskIds(last[1].before))
        => /\ Get(ItemAfter, "id") = Num(last[1].req.taskId)
           /\ UniqueTaskIds(store)

(* C37: a GET leaves the tasks file as it was; GET /api/tasks answers the  *)
(* tasks localised; GET /api/tasks/:taskId?locale=en answers the task as   *)
(* it is stored, its primary fields not replaced by the translations.      *)
C37_GetLeavesStore ==
    /\ (last # <<>> /\ last[1].req.route \in {"getTasks", "getTask"})
          => store = last[1].before
    /\ (LastGet(200) /\ last[1].req.route = "getTask" /\ last[1].req.locale = "en")
          => /\ last[1].body = ItemAt(store, <<findIndex(TasksOf(store),
                                                          last[1].req.taskId)>>)
             /\ \A f \in PrimaryFields :
                   Get(last[1].body, f)
                     = Get(TasksOf(store)[findIndex(TasksOf(store),
                                                    last[1].req.taskId)], f)
    /\ (LastGet(200) /\ last[1].req.route = "getTasks")
          => /\ Len(TasksOf(last[1].body)) = Len(TasksOf(store))
             /\ \A i \in 1..Len(TasksOf(store)) :
                   TasksOf(last[1].body)[i] = LocalizeTask(TasksOf(store)[i])

C37_Witness ==
    /\ LastGet(200)
    /\ last[1].req = Request("getTask", 1, 0, "en", Undefined)
    /\ store = InitialStore
    /\ Get(last[1].body, "title") = Str("T")
    /\ Get(last[1].body, "titleTrans") = Str("Tzh")

(* C38: after a PUT /api/tasks/:taskId answered with success whose body    *)
(* sets only title, to the non-empty value X, GET /api/tasks/:taskId with  *)
(* the default locale answers a task whose title is X, whether the task    *)
(* had a translated title or not.                                          *)
C38_PutGetRoundTrip ==
    (/\ LastPut(200)
     /\ last[1].req.route = "putTask"
     /\ last[1].req.body = Obj("title" :> Str("X")))
        => LET answer == getTask(readJSON(store), last[1].req.taskId, "zh")
           IN /\ answer.status = 200
              /\ Get(answer.body, "title") = Str("X")
              /\ Get(last[1].body, "title") = Str("X")

C38_Witness ==
    /\ LastPut(200)
    /\ last[1].req = Request("putTask", 1, 0, "", Obj("title" :> Str("X")))
    /\ last[1].before = InitialStore
    /\ Get(ItemAfter, "title") = Str("T")
    /\ Get(ItemAfter, "titleTrans") = Str("X")


---------------------------------------------------------------------------
(* Properties of the web UI *)

\* the selection is empty, or it is a task of the filtered list
SelectionInList ==
    \/ state.selectedTaskId = Null
    \/ \E i \in 1..Len(getFilteredTasks(state)) :
         Get(getFilteredTasks(state)[i], "id") = state.selectedTaskId

\* a selection that is no task of the filtered list has been cleared whole
SelectionCleared ==
    (\A i \in 1..Len(getFilteredTasks(state)) :
        Get(getFilteredTasks(state)[i], "id") # state.selectedTaskId)
      => /\ state.selectedTask = Null
         /\ state.selectedTaskId = Null
         /\ state.selectedSubtaskId = Null

(* C39: after every renderTasks, run by a change of the status filter or   *)
(* by the arrival of the tasks, selectedTaskId is null or the id of a task *)
(* of the filtered list, and a selection that is not in the filtered list  *)
(* has selectedTask, selectedTaskId and selectedSubtaskId null.            *)
C39_SelectionInFilteredList ==
    [][(FetchTasksResolves \/ HandleStatusFilterChange)
         => (SelectionInList /\ SelectionCleared)']_vars


---------------------------------------------------------------------------
(* Properties of the MCP tools *)

(* C40: executeTaskMasterCommand spawns at most two commands, the second   *)
(* one only after the global CLI was missing (ENOENT) and always then; it  *)
(* never throws; it returns success = true with the command's stdout and   *)
(* stderr exactly when the last command spawned had no error and exit      *)
(* status 0, and success = false with an error message otherwise.          *)
C40_CommandNeverThrows ==
    /\ Len(spawned) <= 2
    /\ Len(spawned) = 2
          => /\ spawned[1].program = "task-manager"
             /\ spawned[1].result.error = "ENOENT"
             /\ spawned[2].program = "node"
             /\ spawned[2].args = <<"scripts/dev.js">> \o spawned[1].args
    /\ returned # <<>>
          => LET res == spawned[Len(spawned)].result
                 value == returned[1].value
             IN /\ returned[1].kind = "return"
                /\ spawned[1].result.error = "ENOENT" => Len(spawned) = 2
                /\ IF res.error = "none" /\ res.status = Num(0)
                   THEN value = [success |-> TRUE, stdout |-> res.stdout,
                                 stderr |-> res.stderr]
                   ELSE /\ DOMAIN value = {"success", "error"}
                        /\ value.success = FALSE
                        /\ value.error # <<>>

C40_Witness ==
    /\ Len(spawned) = 2
    /\ spawned[2].result.error = "none"
    /\ spawned[2].result.status = Num(2)
    /\ spawned[2].result.stderr = Str(" ")
    /\ returned = <<[kind |-> "return",
                     value |-> [success |-> FALSE,
                                error |-> <<"Command failed with exit code ",
                                            Num(2), "">>]]>>

=============================================================================
